---------------------------- MODULE Spec2Model ----------------------------
(***************************************************************************)
(* A model of the Swiss-table hash set of alp (src/src/alp-set.cppm,       *)
(* class Table and class Set, the second, allocator-aware revision that    *)
(* starts at line 930).                                                    *)
(*                                                                         *)
(* The table is instantiated as in the collision tests of the repository: *)
(* int keys, the IdentityHash hasher and the IdentityHashPolicy, so that a *)
(* key is its own hash and the keys 0, 128, 129, ... give chosen h1 / h2   *)
(* values.  The width of a SIMD group is the backend's GroupSize; the      *)
(* model uses a narrow group so that full groups, tombstones and the wrap  *)
(* of the probe sequence are reached with a handful of keys.               *)
(***************************************************************************)
EXTENDS Integers, Sequences, FiniteSets, TLC

VARIABLES
    tbl,     \* the fields of the Table object under observation
    last,    \* the last public call: its name and what it did
    hung,    \* TRUE when the last call entered a probe loop it never leaves
    elems,   \* the abstract set: keys inserted and not since erased or cleared
    age,     \* calls made since the first copy construction, that call
             \* included; 0 while the object is not a copy
    tbl2,    \* the fields of a second Table object
    shared,  \* TRUE when tbl and tbl2 point at the same buffer
    vals,    \* Map: the `second` member of the pair in each slot of tbl
    mabs,    \* Map: the abstract map, a function from keys to values
    exc,     \* what the last call did if an exception left it
    slotHash, \* StoreHashTag: the `hash` member of each slot of tbl
    probe,   \* a probe loop on its own: policy, group count, position
    adapter  \* an AlignedAllocatorAdapter call on its own: request and result

vars == <<tbl, last, hung, elems, age, tbl2, shared, vals, mabs, exc, slotHash,
          probe, adapter>>

----------------------------------------------------------------------------
(* Bounds *)

\* lanes per group (Backend::GroupSize, narrowed)
LANE_COUNT == 4
\* the keys are 0 (h1 = 0) and 128..128 + MaxHigh (h1 = 1)
MaxHigh == 2
\* the mapped values of the Map are 0..MaxVal
MaxVal == 1
\* reserve(n) is called with n in 0..MaxReserve
MaxReserve == 7
\* a copy is followed for MaxAge calls, the copy construction included
MaxAge == 2

----------------------------------------------------------------------------
(* Program constants *)

Empty == 128
Deleted == 254
Sentinel == 255

\* DEFAULT_LOAD_FACTOR = std::ratio<7, 8>
LoadNum == 7
LoadDen == 8

\* the number of fragment values: h2 is hash & 0x7F, h1 is hash >> 7
H2Range == 128

Keys == {0} \cup {H2Range + b : b \in 0..MaxHigh}

\* an unconstructed slot (raw storage that holds no element)
NoElem == -1
\* the result of a probe loop that never returns
Diverge == -2

----------------------------------------------------------------------------
(* Hashing *)

\* IdentityHash of the tests: size_t(x)
Hash(x) == x
\* IdentityHashPolicy::apply
PolicyApply(h) == h
\* Equal = std::equal_to<int>
Equal(x, y) == x = y

h1(hash) == hash \div H2Range
\* a bug h2 could have: it keeps the low byte, not the low seven bits
h2LowByte(hash) == hash % (2 * H2Range)
h2(hash) == hash % H2Range

\* x & (groups - 1) for a power-of-two group count
MaskGroup(x, groups) == x % groups

----------------------------------------------------------------------------
(* SIMD group over LANE_COUNT control bytes starting at base *)

Lanes == 0..(LANE_COUNT - 1)

Min(S) == CHOOSE x \in S : \A y \in S : x <= y

\* Backend::match(load(ctrl + base), v)
Match(ctrl, base, v) == {i \in Lanes : ctrl[base + i] = v}
\* a bug matchEmpty could have: it also selects tombstones
MatchEmptyOrDeleted(ctrl, base) ==
    {i \in Lanes : ctrl[base + i] = Empty \/ ctrl[base + i] = Deleted}
\* Backend::matchEmpty
MatchEmpty(ctrl, base) == Match(ctrl, base, Empty)
\* Backend::matchFull: lanes whose top bit is clear
MatchFull(ctrl, base) == {i \in Lanes : ctrl[base + i] < 128}
\* EveBackend::matchFull and the std_simd backend's: lanes that hold none
\* of the three special values
MatchFullExclude(ctrl, base) ==
    {i \in Lanes : /\ ctrl[base + i] # Empty
                   /\ ctrl[base + i] # Deleted
                   /\ ctrl[base + i] # Sentinel}
\* Group::anyEmpty
AnyEmpty(ctrl, base) == MatchEmpty(ctrl, base) # {}
\* Group::atEnd
AtEnd(ctrl, base) == Match(ctrl, base, Sentinel) # {}

\* SetIterator::isFull
IsFull(c) == c < 128

----------------------------------------------------------------------------
(* The table object *)

EmptyArr == [i \in {} |-> 0]

\* Table's default member initialisers
DefaultTable ==
    [size_ |-> 0, used_ |-> 0, capacity_ |-> 0, ctrlLen_ |-> 0, groups_ |-> 0,
     buffer_ |-> FALSE, ctrl_ |-> EmptyArr, slots_ |-> EmptyArr]

\* std::bit_ceil: the smallest power of two that is at least n
RECURSIVE BitCeilFrom(_, _)
BitCeilFrom(p, n) == IF p >= n THEN p ELSE BitCeilFrom(2 * p, n)
BitCeil(n) == BitCeilFrom(1, n)

\* Table::findSmallestN
FindSmallestN(count) ==
    LET min_capacity == count + 1
    IN  BitCeil((min_capacity + LANE_COUNT - 1) \div LANE_COUNT)

\* std::ceil(count / loadFactor)
Desired(count) == (count * LoadDen + LoadNum - 1) \div LoadNum

\* a bug the load check could have: it compares size, not size + 1
OverLoadLate(T) == T.size_ * LoadDen > T.capacity_ * LoadNum

\* size_ + 1 > capacity_ * loadFactor
OverLoad(T) == (T.size_ + 1) * LoadDen > T.capacity_ * LoadNum

\* Table::find_internal, the probe loop; visits counts the groups loaded.
\* The loop's only state is `group`, which repeats after groups_ steps, so
\* a loop that has not returned after groups_ visits never returns.
RECURSIVE FindLoop(_, _, _, _)
FindLoop(T, key, group, visits) ==
    IF visits >= T.groups_ THEN Diverge
    ELSE
        LET base == group * LANE_COUNT
            hit == {i \in Match(T.ctrl_, base, h2(PolicyApply(Hash(key)))) :
                        Equal(key, T.slots_[base + i])}
        IN  IF hit # {} THEN base + Min(hit)
            ELSE IF AnyEmpty(T.ctrl_, base) THEN T.ctrlLen_
            ELSE FindLoop(T, key, MaskGroup(group + 1, T.groups_), visits + 1)

\* Table::find_internal
FindInternal(T, key) ==
    IF T.size_ = 0 THEN T.ctrlLen_
    ELSE FindLoop(T, key, MaskGroup(h1(PolicyApply(Hash(key))), T.groups_), 0)

\* Set::contains: find(key) != end(); "hang" when find never returns
Contains(T, key) ==
    LET idx == FindInternal(T, key)
    IN  IF idx = Diverge THEN "hang"
        ELSE IF idx # T.ctrlLen_ THEN "true" ELSE "false"

\* insertUnchecked, the relocation of one element into lane idx of the new
\* buffer N = [ctrl, slots]: the memcpy / move and newCtrl[idx] = h2Val
MoveInto(N, idx, elem) ==
    [ctrl |-> [N.ctrl EXCEPT ![idx] = h2(PolicyApply(Hash(elem)))],
     slots |-> [N.slots EXCEPT ![idx] = elem]]

\* rehashImpl's lambda insertUnchecked, its probe loop
RECURSIVE InsertUnchecked(_, _, _, _)
InsertUnchecked(N, ngroups, elem, group) ==
    LET base == group * LANE_COUNT
        emptyMask == MatchEmpty(N.ctrl, base)
    IN  IF emptyMask # {}
        THEN MoveInto(N, base + Min(emptyMask), elem)
        ELSE InsertUnchecked(N, ngroups, elem, MaskGroup(group + 1, ngroups))

\* a bug rehash could have: the sentinel byte is never written
NewCtrlNoSentinel(count) == [i \in 0..(count - 1) |-> Empty]

\* rehashImpl: memset(newCtrl, Empty, newCapacity); newCtrl[newCapacity] = Sentinel
NewCtrl(count) == [i \in 0..(count - 1) |-> IF i = count - 1 THEN Sentinel ELSE Empty]

\* the slots of a fresh buffer: raw storage
NewSlots(capacity) == [i \in 0..(capacity - 1) |-> NoElem]

\* rehashImpl's transfer loop over the old groups and their full lanes,
\* in ascending slot index from oldIdx
RECURSIVE Transfer(_, _, _, _)
Transfer(T, N, ngroups, oldIdx) ==
    IF oldIdx >= T.groups_ * LANE_COUNT THEN N
    ELSE IF IsFull(T.ctrl_[oldIdx])
         THEN Transfer(T,
                       InsertUnchecked(N, ngroups, T.slots_[oldIdx],
                           MaskGroup(h1(PolicyApply(Hash(T.slots_[oldIdx]))), ngroups)),
                       ngroups, oldIdx + 1)
         ELSE Transfer(T, N, ngroups, oldIdx + 1)

\* Table::rehashImpl
RehashImpl(T, newGroupCount) ==
    LET count == LANE_COUNT * newGroupCount
        newCapacity == count - 1
        N0 == [ctrl |-> NewCtrl(count), slots |-> NewSlots(newCapacity)]
        N == IF T.capacity_ > 0 THEN Transfer(T, N0, newGroupCount, 0) ELSE N0
    IN  [T EXCEPT !.buffer_ = TRUE, !.ctrl_ = N.ctrl, !.slots_ = N.slots,
                  !.ctrlLen_ = count, !.capacity_ = newCapacity,
                  !.groups_ = newGroupCount]

\* Table::rehash
Rehash(T, count) == RehashImpl(T, FindSmallestN(count))

\* a bug reserve could have: no early return, it always rehashes
ReserveAlways(T, count) == Rehash(T, Desired(count))

\* Table::reserve
Reserve(T, count) ==
    IF Desired(count) <= T.capacity_ THEN T ELSE Rehash(T, Desired(count))

\* emplace_internal, the placement into the chosen empty lane
Place(T, idx, value, hash) ==
    [T EXCEPT !.ctrl_ = [@ EXCEPT ![idx] = h2(hash)],
              !.slots_ = [@ EXCEPT ![idx] = value],
              !.size_ = @ + 1]

\* Table::emplace_internal; the result carries the table after the call,
\* the returned pair and hang = TRUE when the probe loop never returns
RECURSIVE EmplaceInternal(_, _, _)
RECURSIVE EmplaceLoop(_, _, _, _, _)
EmplaceLoop(T, value, hash, group, visits) ==
    IF visits >= T.groups_
    THEN [tbl |-> T, idx |-> Diverge, inserted |-> FALSE, hang |-> TRUE]
    ELSE
        LET baseSlot == group * LANE_COUNT
            hit == {i \in Match(T.ctrl_, baseSlot, h2(hash)) :
                        Equal(T.slots_[baseSlot + i], value)}
            empty == MatchEmpty(T.ctrl_, baseSlot)
        IN  IF hit # {}
            THEN [tbl |-> T, idx |-> baseSlot + Min(hit), inserted |-> FALSE,
                  hang |-> FALSE]
            ELSE IF empty # {}
            THEN IF OverLoad(T)
                 THEN EmplaceInternal(Reserve(T, T.size_ + 1), value, hash)
                 ELSE [tbl |-> Place(T, baseSlot + Min(empty), value, hash),
                       idx |-> baseSlot + Min(empty), inserted |-> TRUE,
                       hang |-> FALSE]
            ELSE EmplaceLoop(T, value, hash, MaskGroup(group + 1, T.groups_),
                             visits + 1)

\* a bug emplace_internal could have: after the rehash it returns the index
\* of the Empty lane its probe had found in the old buffer
EmplaceInternalStaleIdx(T, value, hash) ==
    LET T1 == IF T.capacity_ = 0 THEN Reserve(T, 1) ELSE T
        r == EmplaceLoop(T1, value, hash, MaskGroup(h1(hash), T1.groups_), 0)
        js == {j \in 0..(T1.groups_ - 1) :
                  AnyEmpty(T1.ctrl_, MaskGroup(h1(hash) + j, T1.groups_) * LANE_COUNT)}
        base == MaskGroup(h1(hash) + Min(js), T1.groups_) * LANE_COUNT
    IN  IF ~r.hang /\ r.tbl.capacity_ # T1.capacity_
        THEN [r EXCEPT !.idx = base + Min(MatchEmpty(T1.ctrl_, base))]
        ELSE r

EmplaceInternal(T, value, hash) ==
    LET T1 == IF T.capacity_ = 0 THEN Reserve(T, 1) ELSE T
    IN  EmplaceLoop(T1, value, hash, MaskGroup(h1(hash), T1.groups_), 0)

\* Table::emplace_wrapper
EmplaceWrapper(T, value) == EmplaceInternal(T, value, PolicyApply(Hash(value)))

\* a bug erase could have: size_ is not decremented
EraseSlotKeepSize(T, offset) ==
    LET groupBase == offset - (offset % LANE_COUNT)
    IN  [T EXCEPT !.slots_ = [@ EXCEPT ![offset] = NoElem],
                  !.ctrl_ = [@ EXCEPT ![offset] =
                                IF AnyEmpty(T.ctrl_, groupBase) THEN Empty
                                                                ELSE Deleted]]

\* a bug erase could have: it always marks the lane Empty
EraseSlotEmpty(T, offset) ==
    [T EXCEPT !.slots_ = [@ EXCEPT ![offset] = NoElem],
              !.size_ = @ - 1,
              !.ctrl_ = [@ EXCEPT ![offset] = Empty]]

\* a bug erase could have: it fills the hole with the last live element
EraseSlotMoveLast(T, offset) ==
    LET full == {i \in DOMAIN T.slots_ : IsFull(T.ctrl_[i])}
        lastIdx == CHOOSE i \in full : \A j \in full : j <= i
    IN  [T EXCEPT !.slots_ = [[@ EXCEPT ![offset] = T.slots_[lastIdx]]
                                 EXCEPT ![lastIdx] = NoElem],
                  !.ctrl_ = [[@ EXCEPT ![offset] = T.ctrl_[lastIdx]]
                                EXCEPT ![lastIdx] = Deleted],
                  !.size_ = @ - 1]

\* a bug erase could have: it always leaves a tombstone
EraseSlotTombstone(T, offset) ==
    [T EXCEPT !.slots_ = [@ EXCEPT ![offset] = NoElem],
              !.size_ = @ - 1,
              !.ctrl_ = [@ EXCEPT ![offset] = Deleted]]

\* a bug erase could have: the element is not destroyed
EraseSlotNoDestroy(T, offset) ==
    LET groupBase == offset - (offset % LANE_COUNT)
    IN  [T EXCEPT !.size_ = @ - 1,
                  !.ctrl_ = [@ EXCEPT ![offset] =
                                IF AnyEmpty(T.ctrl_, groupBase) THEN Empty
                                                                ELSE Deleted]]

\* Table::erase_slot
EraseSlot(T, offset) ==
    LET groupBase == offset - (offset % LANE_COUNT)
    IN  [T EXCEPT !.slots_ = [@ EXCEPT ![offset] = NoElem],
                  !.size_ = @ - 1,
                  !.ctrl_ = [@ EXCEPT ![offset] =
                                IF AnyEmpty(T.ctrl_, groupBase) THEN Empty
                                                                ELSE Deleted]]

\* a bug clear could have: size_ is not reset
ClearKeepSize(T) ==
    [T EXCEPT !.used_ = 0, !.capacity_ = 0, !.ctrlLen_ = 0,
              !.buffer_ = FALSE, !.ctrl_ = EmptyArr, !.slots_ = EmptyArr]

\* Table::clear (groups_ is not among the fields it resets)
Clear(T) ==
    [T EXCEPT !.size_ = 0, !.used_ = 0, !.capacity_ = 0, !.ctrlLen_ = 0,
              !.buffer_ = FALSE, !.ctrl_ = EmptyArr, !.slots_ = EmptyArr]

----------------------------------------------------------------------------
(* Iterator: a position is the offset of the control pointer from ctrl_ *)

\* Table::end
End(T) == T.ctrlLen_

\* SetIterator::skipEmptySlotsAligned
RECURSIVE SkipEmptySlotsAligned(_, _)
SkipEmptySlotsAligned(T, pos) ==
    LET mask == MatchFull(T.ctrl_, pos)
    IN  IF mask # {} THEN pos + Min(mask)
        ELSE IF AtEnd(T.ctrl_, pos) THEN pos + LANE_COUNT
        ELSE SkipEmptySlotsAligned(T, pos + LANE_COUNT)

\* SetIterator::skipEmptySlots
SkipEmptySlots(T, pos) ==
    LET offset == pos % LANE_COUNT
        groupBase == pos - offset
        next == {i \in MatchFull(T.ctrl_, groupBase) : i >= offset}
    IN  IF offset = 0 THEN SkipEmptySlotsAligned(T, pos)
        ELSE IF next # {} THEN groupBase + Min(next)
        ELSE IF AtEnd(T.ctrl_, groupBase) THEN groupBase + LANE_COUNT
        ELSE SkipEmptySlotsAligned(T, groupBase + LANE_COUNT)

\* Table::begin
Begin(T) == IF 0 # End(T) THEN SkipEmptySlots(T, 0) ELSE 0

\* a bug operator++ could have: it steps without skipping non-full bytes
IncrNoSkip(T, pos) == pos + 1

\* SetIterator::operator++
Incr(T, pos) ==
    IF IsFull(T.ctrl_[pos + 1]) THEN pos + 1 ELSE SkipEmptySlots(T, pos + 1)

----------------------------------------------------------------------------
(* Copy construction *)

\* the loop of Table(Table const&): for (it = other.begin(); it != other.end(); ++it)
RECURSIVE CopyLoop(_, _, _)
CopyLoop(other, N, it) ==
    IF it = End(other) THEN N
    ELSE CopyLoop(other,
                  [ctrl |-> [N.ctrl EXCEPT ![it] = other.ctrl_[it]],
                   slots |-> [N.slots EXCEPT ![it] = other.slots_[it]]],
                  Incr(other, it))

\* Table::Table(Table const& other)
CopyConstruct(other) ==
    LET fields == [DefaultTable EXCEPT !.size_ = other.size_,
                                       !.used_ = other.used_,
                                       !.capacity_ = other.capacity_,
                                       !.ctrlLen_ = other.ctrlLen_,
                                       !.groups_ = other.groups_]
        N0 == [ctrl |-> [i \in 0..(other.ctrlLen_ - 1) |-> Empty],
               slots |-> NewSlots(other.capacity_)]
        N == CopyLoop(other, N0, Begin(other))
    IN  IF ~other.buffer_ THEN fields
        ELSE IF other.capacity_ > 0
        THEN [fields EXCEPT !.buffer_ = TRUE,
                            !.ctrl_ = [N.ctrl EXCEPT ![other.capacity_] = Sentinel],
                            !.slots_ = N.slots]
        ELSE [fields EXCEPT !.buffer_ = TRUE, !.ctrl_ = N0.ctrl,
                            !.slots_ = N0.slots]

----------------------------------------------------------------------------
(* The public calls on the Set under observation *)

\* Set::erase(T const& key): the table after the call, the returned count
\* and whether the lookup never returns
SetErase(T, key) ==
    LET idx == FindInternal(T, key)
    IN  IF idx = Diverge THEN [tbl |-> T, count |-> 0, hang |-> TRUE]
        ELSE IF idx = T.ctrlLen_ THEN [tbl |-> T, count |-> 0, hang |-> FALSE]
        ELSE [tbl |-> EraseSlot(T, idx), count |-> 1, hang |-> FALSE]

\* Set::tryErase: the table after the call, has_value() of the result and
\* whether the lookup never returns
SetTryErase(T, key) ==
    LET idx == FindInternal(T, key)
    IN  IF idx = Diverge THEN [tbl |-> T, ok |-> FALSE, hang |-> TRUE]
        ELSE IF idx = T.ctrlLen_ THEN [tbl |-> T, ok |-> FALSE, hang |-> FALSE]
        ELSE [tbl |-> EraseSlot(T, idx), ok |-> TRUE, hang |-> FALSE]

\* Set::get: has_value() of the result, the element referred to and
\* whether the lookup never returns
SetGet(T, key) ==
    LET idx == FindInternal(T, key)
    IN  IF idx = Diverge THEN [ok |-> FALSE, value |-> NoElem, hang |-> TRUE]
        ELSE IF idx = End(T) THEN [ok |-> FALSE, value |-> NoElem, hang |-> FALSE]
        ELSE [ok |-> TRUE, value |-> T.slots_[idx], hang |-> FALSE]

\* op: the call; flag: the call inserted or erased an element;
\* grew: the call changed capacity_
NoCall == [op |-> "none", flag |-> FALSE, grew |-> FALSE]

\* no probe loop is under observation
NoProbe == [policy |-> "none", groups |-> 0, group |-> 0, i |-> 0, seen |-> << >>]

\* no adapter call is under observation
NoAdapter == [op |-> "none"]

\* thrown: an exception left the call; made: the slots whose element was
\* constructed, in order; destroyed: the slots whose element was destroyed,
\* in order; released: the buffer the call allocated was deallocated
NoExc == [thrown |-> FALSE, made |-> << >>, destroyed |-> << >>,
          released |-> FALSE]

Init ==
    /\ tbl = DefaultTable
    /\ last = NoCall
    /\ hung = FALSE
    /\ elems = {}
    /\ age = 0
    /\ tbl2 = DefaultTable
    /\ shared = FALSE
    /\ vals = EmptyArr
    /\ mabs = EmptyArr
    /\ exc = NoExc
    /\ slotHash = EmptyArr
    /\ probe = NoProbe
    /\ adapter = NoAdapter

\* a call can be made: the previous one returned
Ready == ~hung /\ age < MaxAge

\* one more call on a copy
Aged == age' = IF age = 0 THEN 0 ELSE age + 1

\* what a member function called on tbl does to the rest of memory: it
\* writes this object's fields and the buffer they point at, so the second
\* object changes only if it points at the same buffer, and the two stop
\* sharing once tbl has a buffer of its own (rehashImpl allocates) or none
\* (clear).  The Set has no `second` members and no abstract map, the slots
\* of the default NoStoreHashTag have no `hash` member, and the call
\* returns normally.
Frame ==
    /\ shared' = (shared /\ tbl'.buffer_ /\ tbl'.capacity_ = tbl.capacity_)
    /\ tbl2' = IF shared'
               THEN [tbl2 EXCEPT !.ctrl_ = tbl'.ctrl_, !.slots_ = tbl'.slots_]
               ELSE tbl2
    /\ UNCHANGED <<vals, mabs, slotHash, probe, adapter>>
    /\ exc' = NoExc

\* Set::emplace / Set::insert
Emplace(k) ==
    /\ Ready
    /\ LET r == EmplaceWrapper(tbl, k)
       IN  /\ tbl' = r.tbl
           /\ last' = [op |-> "emplace", flag |-> r.inserted,
                       grew |-> r.tbl.capacity_ # tbl.capacity_]
           /\ hung' = r.hang
           /\ elems' = IF r.hang THEN elems ELSE elems \cup {k}
    /\ Aged
    /\ Frame

\* Set::erase(T const& key)
EraseKey(k) ==
    /\ Ready
    /\ LET r == SetErase(tbl, k)
       IN  /\ tbl' = r.tbl
           /\ last' = [op |-> "erase", flag |-> r.count = 1, grew |-> FALSE]
           /\ hung' = r.hang
           /\ elems' = IF r.hang THEN elems ELSE elems \ {k}
    /\ Aged
    /\ Frame

\* Set::erase(const_iterator pos), pos an iterator to a live element
EraseIter(pos) ==
    /\ Ready
    /\ pos \in DOMAIN tbl.slots_
    /\ IsFull(tbl.ctrl_[pos])
    /\ tbl' = EraseSlot(tbl, pos)
    /\ last' = [op |-> "eraseIt", flag |-> TRUE, grew |-> FALSE]
    /\ elems' = elems \ {tbl.slots_[pos]}
    /\ UNCHANGED hung
    /\ Aged
    /\ Frame

\* Set::tryErase
TryErase(k) ==
    /\ Ready
    /\ LET r == SetTryErase(tbl, k)
       IN  /\ tbl' = r.tbl
           /\ last' = [op |-> "tryErase", flag |-> r.ok, grew |-> FALSE]
           /\ hung' = r.hang
           /\ elems' = IF r.hang THEN elems ELSE elems \ {k}
    /\ Aged
    /\ Frame

\* a bug reserve could have: it returns early when count, not
\* count / loadFactor, fits the capacity
ReserveCallShort(n) ==
    /\ Ready
    /\ tbl' = IF n <= tbl.capacity_ THEN tbl ELSE Reserve(tbl, n)
    /\ last' = [op |-> "reserve", flag |-> FALSE,
                grew |-> tbl'.capacity_ # tbl.capacity_]
    /\ UNCHANGED <<hung, elems>>
    /\ Aged
    /\ Frame

\* Set::reserve
ReserveCall(n) ==
    /\ Ready
    /\ tbl' = Reserve(tbl, n)
    /\ last' = [op |-> "reserve", flag |-> FALSE,
                grew |-> Reserve(tbl, n).capacity_ # tbl.capacity_]
    /\ UNCHANGED <<hung, elems>>
    /\ Aged
    /\ Frame

\* Set::clear
ClearCall ==
    /\ Ready
    /\ tbl' = Clear(tbl)
    /\ last' = [op |-> "clear", flag |-> tbl.size_ > 0,
                grew |-> tbl.capacity_ # 0]
    /\ elems' = {}
    /\ UNCHANGED hung
    /\ Aged
    /\ Frame

\* copy construction (and copy assignment, which copy-constructs a
\* temporary and swaps it in): the model goes on with the copy
CopyCall ==
    /\ Ready
    /\ tbl' = CopyConstruct(tbl)
    /\ last' = [op |-> "copy", flag |-> FALSE, grew |-> FALSE]
    /\ age' = age + 1
    /\ UNCHANGED <<hung, elems, tbl2, shared, vals, mabs, slotHash, probe, adapter>>
    /\ exc' = NoExc

\* Table(Table&& other): the new object swaps its default fields with
\* other's; the model goes on with the moved-from object
MoveFrom ==
    /\ Ready
    /\ tbl' = DefaultTable
    /\ last' = [op |-> "moveFrom", flag |-> FALSE, grew |-> tbl.capacity_ # 0]
    /\ elems' = {}
    /\ UNCHANGED hung
    /\ Aged
    /\ Frame

\* the calls of the Set alone
NextCore ==
    \/ \E k \in Keys : Emplace(k)
    \/ \E k \in Keys : EraseKey(k)
    \/ \E pos \in DOMAIN tbl.slots_ : EraseIter(pos)
    \/ \E k \in Keys : TryErase(k)
    \/ \E n \in 0..MaxReserve : ReserveCall(n)
    \/ ClearCall

SpecCore == Init /\ [][NextCore]_vars

Next ==
    \/ NextCore
    \/ CopyCall
    \/ MoveFrom

Spec == Init /\ [][Next]_vars

----------------------------------------------------------------------------
(* Observations shared by the properties *)

\* the indices of the live slots
FullSlots(T) == {i \in DOMAIN T.slots_ : IsFull(T.ctrl_[i])}

\* the keys held by live slots
Live(T) == {T.slots_[i] : i \in FullSlots(T)}

\* the group a key's probe sequence starts at
HomeGroup(T, key) == MaskGroup(h1(PolicyApply(Hash(key))), T.groups_)

\* the number of probe steps from group `from` to group `to`
ProbeDistance(T, from, to) == (to - from + T.groups_) % T.groups_

\* the live slot i is reached from its element's home group before any
\* group with an Empty lane
OnProbePath(T, i) ==
    LET g0 == HomeGroup(T, T.slots_[i])
    IN  \A j \in 0..(ProbeDistance(T, g0, i \div LANE_COUNT) - 1) :
            ~AnyEmpty(T.ctrl_, MaskGroup(g0 + j, T.groups_) * LANE_COUNT)

ProbePathInv(T) == \A i \in FullSlots(T) : OnProbePath(T, i)

----------------------------------------------------------------------------
(* C1 *)

\* C1: driven by emplace, erase, tryErase, reserve and clear the Set is a
\* mathematical set: after each call contains(k) is true iff k is in the
\* abstract set, find(k) is end() exactly when k is not in it, and size()
\* is the abstract set's cardinality.
C1_BehavesAsSet ==
    /\ \A k \in Keys :
          /\ Contains(tbl, k) = IF k \in elems THEN "true" ELSE "false"
          /\ (FindInternal(tbl, k) = End(tbl)) <=> (k \notin elems)
    /\ tbl.size_ = Cardinality(elems)

----------------------------------------------------------------------------
(* C2 *)

\* C2: after every public call, copy construction included, every live
\* element is reached from its home group before the probe sequence meets
\* a group with an Empty control byte.
C2_ProbePath == ProbePathInv(tbl)

----------------------------------------------------------------------------
(* C3 *)

\* C3: in every state reached by emplace and erase calls, find(k) and
\* emplace(k) return for every key k: the probe loop meets a matching slot
\* or a group with an Empty lane within groups_ group visits.
C3_ProbeTerminates ==
    /\ ~hung
    /\ \A k \in Keys :
          /\ FindInternal(tbl, k) # Diverge
          /\ ~EmplaceWrapper(tbl, k).hang

----------------------------------------------------------------------------
(* C4 *)

\* the keys an erasing step may have removed: erase(k) and tryErase(k) of
\* a present key k, erase(pos) of the slot that holds k
ErasedKeys ==
    IF last'.op \in {"erase", "eraseIt", "tryErase"} /\ last'.flag
    THEN {k \in Live(tbl) : tbl' = SetErase(tbl, k).tbl}
    ELSE {}

\* the keys k for which the step is the call emplace(k)
EmplacedKeys ==
    IF last'.op = "emplace" THEN {k \in Keys : Emplace(k)} ELSE {}

\* C4: erasing a key k changes the outcome of contains(j) for no other key
\* j, whether the control byte became Empty or Deleted, and neither does a
\* later emplace of another key.
C4_EraseFrame ==
    [][/\ \A k \in ErasedKeys :
            \A j \in Keys \ {k} : Contains(tbl', j) = Contains(tbl, j)
       /\ \A k \in EmplacedKeys :
            \A j \in Keys \ {k} : Contains(tbl', j) = Contains(tbl, j)
      ]_vars

----------------------------------------------------------------------------
(* C5 *)

\* the step went through rehashImpl
RehashStep == last'.op \in {"reserve", "emplace"} /\ last'.grew

\* the key the rehashing step inserted, if it was an emplace
AddedKeys == {k \in EmplacedKeys : EmplaceWrapper(tbl, k).inserted}

\* C5: across a rehash of a table in any reachable state, triggered by
\* emplace at the load limit or by an enlarging reserve, every key
\* contained before is contained after, no
\* absent key becomes present, size is unchanged (but for the key the
\* emplace adds) and each old live element is in exactly one live slot.
C5_RehashPreserves ==
    [][RehashStep =>
         /\ \A k \in Keys \ AddedKeys :
               (Contains(tbl, k) = "true") <=> (Contains(tbl', k) = "true")
         /\ tbl'.size_ = tbl.size_ + Cardinality(AddedKeys)
         /\ \A e \in Live(tbl) :
               Cardinality({i \in FullSlots(tbl') : tbl'.slots_[i] = e}) = 1
         /\ Live(tbl') = Live(tbl) \cup AddedKeys
      ]_vars

----------------------------------------------------------------------------
(* C6 *)

\* C6: after copy construction or copy assignment the copy has the
\* source's size and contains(k) answers on the copy as on the source,
\* for every key k.
C6_CopyEqual ==
    [][last'.op = "copy" =>
         /\ tbl'.size_ = tbl.size_
         /\ \A k \in Keys : Contains(tbl', k) = Contains(tbl, k)
      ]_vars

----------------------------------------------------------------------------
(* C7 *)

\* C7: emplace(k) on a table without k returns (i, true) and makes
\* contains(k) true; an emplace(k) right after it returns (i, false) with
\* the same i and leaves the table unchanged, with no rehash.
C7_EmplaceIdempotent ==
    [][\A k \in EmplacedKeys \ Live(tbl) :
         LET r1 == EmplaceWrapper(tbl, k)
             r2 == EmplaceWrapper(tbl', k)
         IN  /\ ~r1.hang
             /\ r1.inserted
             /\ r1.idx \in FullSlots(tbl')
             /\ tbl'.slots_[r1.idx] = k
             /\ Contains(tbl', k) = "true"
             /\ ~r2.hang
             /\ ~r2.inserted
             /\ r2.idx = r1.idx
             /\ r2.tbl = tbl'
      ]_vars

----------------------------------------------------------------------------
(* C8 *)

\* the keys k for which the step is the call erase(k)
EraseCalls ==
    IF last'.op = "erase" THEN {k \in Keys : EraseKey(k)} ELSE {}

\* C8: erase(key) returns 1, takes one off size and makes contains(key)
\* false when the key is present; it returns 0 and leaves size and the
\* control bytes alone when the key is absent.  An emplace of a new key
\* adds one to size.
C8_EraseAndSize ==
    [][/\ \A k \in EraseCalls \cap Live(tbl) :
            /\ SetErase(tbl, k).count = 1
            /\ tbl'.size_ = tbl.size_ - 1
            /\ Contains(tbl', k) = "false"
       /\ \A k \in EraseCalls \ Live(tbl) :
            /\ ~hung'
            /\ SetErase(tbl, k).count = 0
            /\ tbl'.size_ = tbl.size_
            /\ tbl'.ctrl_ = tbl.ctrl_
       /\ \A k \in EmplacedKeys \ Live(tbl) :
            tbl'.size_ = tbl.size_ + 1
      ]_vars

----------------------------------------------------------------------------
(* C9 *)

\* C9: in every state of an allocated table ctrl[capacity] is Sentinel and
\* no control byte below capacity is Sentinel.
C9_Sentinel ==
    tbl.buffer_ =>
        /\ tbl.ctrl_[tbl.capacity_] = Sentinel
        /\ \A i \in 0..(tbl.capacity_ - 1) : tbl.ctrl_[i] # Sentinel

\* a copy of a two-group table that holds elements and a tombstone
C9_Witness ==
    /\ last.op = "copy" /\ tbl.buffer_ /\ tbl.groups_ = 2 /\ tbl.size_ >= 3

----------------------------------------------------------------------------
(* C10 *)

----------------------------------------------------------------------------
(* C11 *)

\* C11: in every table reached by public calls, emplace into a copy
\* included, no two live slots hold equal elements.
C11_UniqueKeys ==
    \A i, j \in FullSlots(tbl) :
        Equal(tbl.slots_[i], tbl.slots_[j]) => i = j

----------------------------------------------------------------------------
(* C12 *)

\* the positions an iterator takes from `it` on under ++, the position it
\* stops at included; the walk is cut when it leaves the slots or has
\* made more steps than there are control bytes
RECURSIVE IterVisits(_, _, _)
IterVisits(T, it, n) ==
    IF it = End(T) \/ it \notin DOMAIN T.slots_ \/ n > T.ctrlLen_
    THEN <<it>>
    ELSE <<it>> \o IterVisits(T, Incr(T, it), n + 1)

----------------------------------------------------------------------------
(* C13 *)

\* C13: right after clear() size() is 0, begin() = end(), contains(k) is
\* false for every k, and an emplace(k) then returns (i, true) and makes
\* contains(k) true.
C13_ClearEmpties ==
    last.op = "clear" =>
        /\ tbl.size_ = 0
        /\ Begin(tbl) = End(tbl)
        /\ \A k \in Keys :
              /\ Contains(tbl, k) = "false"
              /\ LET r == EmplaceWrapper(tbl, k)
                 IN  /\ ~r.hang
                     /\ r.inserted
                     /\ r.idx \in FullSlots(r.tbl)
                     /\ r.tbl.slots_[r.idx] = k
                     /\ r.tbl.size_ = 1
                     /\ Contains(r.tbl, k) = "true"

\* clear() has just released a two-group table that held elements
C13_Witness ==
    /\ last.op = "clear" /\ last.flag
    /\ tbl.groups_ = 2 /\ ~tbl.buffer_

----------------------------------------------------------------------------
(* C14 *)

\* the arguments n for which the step is the call reserve(n)
ReserveArgs ==
    IF last'.op = "reserve" THEN {n \in 0..MaxReserve : ReserveCall(n)} ELSE {}

\* C14: reserve(n) never decreases capacity; when ceil(n / load factor) is
\* at most the capacity the table is left as it was; otherwise the new
\* capacity is at least ceil(n / load factor), and the stored elements and
\* size are unchanged and every stored element is still found.
C14_ReserveGrowsOnly ==
    [][\A n \in ReserveArgs :
         /\ tbl'.capacity_ >= tbl.capacity_
         /\ Desired(n) <= tbl.capacity_ => tbl' = tbl
         /\ Desired(n) > tbl.capacity_ =>
               /\ tbl'.capacity_ >= Desired(n)
               /\ Live(tbl') = Live(tbl)
               /\ tbl'.size_ = tbl.size_
               /\ \A k \in Live(tbl) : Contains(tbl', k) = "true"
      ]_vars

\* a reserve has just enlarged a table that holds elements
C14_Witness ==
    /\ last.op = "reserve" /\ last.grew
    /\ tbl.size_ >= 3 /\ tbl.groups_ = 4

----------------------------------------------------------------------------
(* C15 *)

\* the keys k for which the step is the call tryErase(k)
TryEraseCalls ==
    IF last'.op = "tryErase" THEN {k \in Keys : TryErase(k)} ELSE {}

\* C15: on a miss get(k) and tryErase(k) return NotFound, find(k) returns
\* end() and the table is unchanged; on a hit get(k) returns the stored
\* element equal to k, and tryErase(k) succeeds, takes one off size and
\* makes contains(k) false.
C15_GetTryErase ==
    [][/\ \A k \in Keys \ Live(tbl) :
            /\ ~SetGet(tbl, k).hang /\ ~SetGet(tbl, k).ok
            /\ FindInternal(tbl, k) = End(tbl)
       /\ \A k \in Live(tbl) :
            /\ SetGet(tbl, k).ok /\ Equal(SetGet(tbl, k).value, k)
       /\ \A k \in TryEraseCalls \ Live(tbl) :
            /\ ~hung' /\ ~SetTryErase(tbl, k).ok
            /\ tbl' = tbl
       /\ \A k \in TryEraseCalls \cap Live(tbl) :
            /\ SetTryErase(tbl, k).ok
            /\ tbl'.size_ = tbl.size_ - 1
            /\ Contains(tbl', k) = "false"
      ]_vars

----------------------------------------------------------------------------
(* The Map: a Table of pairs whose hash and equality look at `first` only *)
(* (MapHashAdapter, MapEqualAdapter).  tbl holds the `first` members, vals *)
(* the `second` member of the pair in the same slot.                       *)

Values == 0..MaxVal

\* Value(): the mapped value operator[] constructs on a miss
DefaultValue == 0

\* the `second` members after a call that took table T to T2: each pair
\* is moved as a whole, so a value stays with its key
Carry(T, T2, v) ==
    [i \in DOMAIN T2.slots_ |->
        IF IsFull(T2.ctrl_[i]) /\ T2.slots_[i] \in Live(T)
        THEN v[CHOOSE j \in FullSlots(T) : T.slots_[j] = T2.slots_[i]]
        ELSE NoElem]

\* Map::emplace(k, x) / Map::insert
MapEmplace(T, v, k, x) ==
    LET r == EmplaceWrapper(T, k)
    IN  [tbl |-> r.tbl,
         vals |-> IF r.hang \/ ~r.inserted THEN v
                  ELSE [Carry(T, r.tbl, v) EXCEPT ![r.idx] = x],
         idx |-> r.idx, inserted |-> r.inserted, hang |-> r.hang]

\* Map::insert_or_assign
MapInsertOrAssign(T, v, k, x) ==
    LET idx == FindInternal(T, k)
    IN  IF idx = Diverge
        THEN [tbl |-> T, vals |-> v, idx |-> Diverge, inserted |-> FALSE,
              hang |-> TRUE]
        ELSE IF idx # End(T)
        THEN [tbl |-> T, vals |-> [v EXCEPT ![idx] = x], idx |-> idx,
              inserted |-> FALSE, hang |-> FALSE]
        ELSE MapEmplace(T, v, k, x)

\* Map::operator[]; idx is the slot of the returned reference
MapIndex(T, v, k) ==
    LET idx == FindInternal(T, k)
    IN  IF idx = Diverge
        THEN [tbl |-> T, vals |-> v, idx |-> Diverge, inserted |-> FALSE,
              hang |-> TRUE]
        ELSE IF idx # End(T)
        THEN [tbl |-> T, vals |-> v, idx |-> idx, inserted |-> FALSE,
              hang |-> FALSE]
        ELSE MapEmplace(T, v, k, DefaultValue)

\* Map::erase(Key const&)
MapErase(T, v, k) ==
    LET idx == FindInternal(T, k)
    IN  IF idx = Diverge THEN [tbl |-> T, vals |-> v, count |-> 0, hang |-> TRUE]
        ELSE IF idx = T.ctrlLen_
        THEN [tbl |-> T, vals |-> v, count |-> 0, hang |-> FALSE]
        ELSE [tbl |-> EraseSlot(T, idx), vals |-> [v EXCEPT ![idx] = NoElem],
              count |-> 1, hang |-> FALSE]

\* Map::get
MapGet(T, v, k) ==
    LET idx == FindInternal(T, k)
    IN  IF idx = Diverge THEN [ok |-> FALSE, value |-> NoElem, hang |-> TRUE]
        ELSE IF idx = End(T) THEN [ok |-> FALSE, value |-> NoElem, hang |-> FALSE]
        ELSE [ok |-> TRUE, value |-> v[idx], hang |-> FALSE]

\* the abstract map with k bound to x, and with k removed
Put(m, k, x) == [j \in DOMAIN m \cup {k} |-> IF j = k THEN x ELSE m[j]]
Remove(m, k) == [j \in DOMAIN m \ {k} |-> m[j]]

\* the Map is a single object: no second object, no copies
MapOnly == UNCHANGED <<elems, age, tbl2, shared, exc, slotHash, probe, adapter>>

MapIndexCall(k) ==
    /\ Ready
    /\ LET r == MapIndex(tbl, vals, k)
       IN  /\ tbl' = r.tbl /\ vals' = r.vals /\ hung' = r.hang
           /\ last' = [op |-> "index", flag |-> r.inserted,
                       grew |-> r.tbl.capacity_ # tbl.capacity_]
           /\ mabs' = IF r.hang \/ k \in DOMAIN mabs THEN mabs
                      ELSE Put(mabs, k, DefaultValue)
    /\ MapOnly

MapInsertOrAssignCall(k, x) ==
    /\ Ready
    /\ LET r == MapInsertOrAssign(tbl, vals, k, x)
       IN  /\ tbl' = r.tbl /\ vals' = r.vals /\ hung' = r.hang
           /\ last' = [op |-> "insertOrAssign", flag |-> r.inserted,
                       grew |-> r.tbl.capacity_ # tbl.capacity_]
           /\ mabs' = IF r.hang THEN mabs ELSE Put(mabs, k, x)
    /\ MapOnly

MapEmplaceCall(k, x) ==
    /\ Ready
    /\ LET r == MapEmplace(tbl, vals, k, x)
       IN  /\ tbl' = r.tbl /\ vals' = r.vals /\ hung' = r.hang
           /\ last' = [op |-> "mapEmplace", flag |-> r.inserted,
                       grew |-> r.tbl.capacity_ # tbl.capacity_]
           /\ mabs' = IF r.hang \/ k \in DOMAIN mabs THEN mabs
                      ELSE Put(mabs, k, x)
    /\ MapOnly

MapEraseCall(k) ==
    /\ Ready
    /\ LET r == MapErase(tbl, vals, k)
       IN  /\ tbl' = r.tbl /\ vals' = r.vals /\ hung' = r.hang
           /\ last' = [op |-> "mapErase", flag |-> r.count = 1, grew |-> FALSE]
           /\ mabs' = IF r.hang THEN mabs ELSE Remove(mabs, k)
    /\ MapOnly

NextMap ==
    \/ \E k \in Keys : MapIndexCall(k)
    \/ \E k \in Keys, x \in Values : MapInsertOrAssignCall(k, x)
    \/ \E k \in Keys, x \in Values : MapEmplaceCall(k, x)
    \/ \E k \in Keys : MapEraseCall(k)

SpecMap == Init /\ [][NextMap]_vars

----------------------------------------------------------------------------
(* C16 *)

\* the key/value pairs iteration yields
MapPairs(T, v) == {<<T.slots_[i], v[i]>> : i \in FullSlots(T)}

\* the table T with values v represents the abstract map m: get(k)
\* returns m[k] or NotFound, size() is the number of keys and iteration
\* yields the pairs of m
MapRefines(T, v, m) ==
    /\ \A k \in Keys :
          LET g == MapGet(T, v, k)
          IN  /\ ~g.hang
              /\ g.ok <=> k \in DOMAIN m
              /\ g.ok => g.value = m[k]
    /\ T.size_ = Cardinality(DOMAIN m)
    /\ MapPairs(T, v) = {<<k, m[k]>> : k \in DOMAIN m}

\* C16: under operator[], insert_or_assign, emplace and erase the Map is a
\* mathematical map.  m[k] on a miss inserts (k, Value()) and adds one to
\* size, on a hit returns the stored value and keeps size;
\* insert_or_assign(k, x) on a hit overwrites and returns (it, false), on
\* a miss inserts and returns (it, true); emplace of an existing key keeps
\* the old value; get and iteration agree with the abstract map.
C16_MapRefinement ==
    [][/\ ~hung'
       /\ MapRefines(tbl', vals', mabs')
       /\ \A k \in Keys :
            (last'.op = "index" /\ MapIndexCall(k)) =>
                LET r == MapIndex(tbl, vals, k)
                IN  /\ vals'[r.idx] =
                          IF k \in DOMAIN mabs THEN mabs[k] ELSE DefaultValue
                    /\ tbl'.size_ =
                          IF k \in DOMAIN mabs THEN tbl.size_ ELSE tbl.size_ + 1
       /\ \A k \in Keys, x \in Values :
            (last'.op = "insertOrAssign" /\ MapInsertOrAssignCall(k, x)) =>
                LET r == MapInsertOrAssign(tbl, vals, k, x)
                IN  /\ r.inserted <=> k \notin DOMAIN mabs
                    /\ tbl'.slots_[r.idx] = k /\ vals'[r.idx] = x
                    /\ tbl'.size_ =
                          IF k \in DOMAIN mabs THEN tbl.size_ ELSE tbl.size_ + 1
       /\ \A k \in DOMAIN mabs, x \in Values :
            (last'.op = "mapEmplace" /\ MapEmplaceCall(k, x)) =>
                /\ ~MapEmplace(tbl, vals, k, x).inserted
                /\ MapGet(tbl', vals', k).value = mabs[k]
      ]_vars

----------------------------------------------------------------------------
(* The Set together with a second Table object: copies, moves and swap.   *)
(* The calls of the Set go to tbl; the abstract set of the object that a  *)
(* move or swap brings into tbl is read off its live slots.               *)

\* a bug swap could have: groups_ is not exchanged
SwapFieldsNoGroups(a, b) ==
    [a |-> [b EXCEPT !.groups_ = a.groups_], b |-> [a EXCEPT !.groups_ = b.groups_]]

\* Table::swap: the fields of the two objects after a.swap(b)
SwapFields(a, b) ==
    [a |-> [a EXCEPT !.size_ = b.size_, !.used_ = b.used_,
                     !.capacity_ = b.capacity_, !.ctrlLen_ = b.ctrlLen_,
                     !.groups_ = b.groups_, !.buffer_ = b.buffer_,
                     !.ctrl_ = b.ctrl_, !.slots_ = b.slots_],
     b |-> [b EXCEPT !.size_ = a.size_, !.used_ = a.used_,
                     !.capacity_ = a.capacity_, !.ctrlLen_ = a.ctrlLen_,
                     !.groups_ = a.groups_, !.buffer_ = a.buffer_,
                     !.ctrl_ = a.ctrl_, !.slots_ = a.slots_]]

\* a bug the copy constructor could have: it copies the buffer pointer
CopySharesBuffer(src) == src.buffer_

\* the copy constructor's buffer_ is the result of allocateBuffer, never
\* the source's pointer
CopyShares(src) == FALSE

\* a call on the two objects may also be the last call of a run
PairReady == ~hung /\ age <= MaxAge

\* Table c(a): the copy becomes the second object
CopyKeep ==
    /\ PairReady
    /\ tbl2' = CopyConstruct(tbl)
    /\ shared' = CopyShares(tbl)
    /\ last' = [op |-> "copyKeep", flag |-> FALSE, grew |-> FALSE]
    /\ age' = age + 1
    /\ UNCHANGED <<tbl, hung, elems, vals, mabs, slotHash, probe, adapter>>
    /\ exc' = NoExc

\* Table c(a): the calls go to the copy from here on, the original is the
\* second object
CopySwitch ==
    /\ PairReady
    /\ tbl' = CopyConstruct(tbl)
    /\ tbl2' = tbl
    /\ shared' = CopyShares(tbl)
    /\ last' = [op |-> "copySwitch", flag |-> FALSE, grew |-> FALSE]
    /\ age' = age + 1
    /\ UNCHANGED <<hung, elems, vals, mabs, slotHash, probe, adapter>>
    /\ exc' = NoExc

\* tbl = tbl2 (operator=(Table const&)): a temporary copy of tbl2 is
\* swapped in and the old contents die with the temporary
CopyAssign ==
    /\ PairReady
    /\ tbl' = SwapFields(tbl, CopyConstruct(tbl2)).a
    /\ shared' = CopyShares(tbl2)
    /\ last' = [op |-> "copyAssign", flag |-> FALSE, grew |-> FALSE]
    /\ elems' = Live(tbl')
    /\ age' = age + 1
    /\ UNCHANGED <<tbl2, hung, vals, mabs, slotHash, probe, adapter>>
    /\ exc' = NoExc

\* Table d(std::move(tbl)): d, the second object from here on, swaps its
\* default fields with tbl's
MoveConstruct ==
    /\ PairReady
    /\ tbl2' = SwapFields(DefaultTable, tbl).a
    /\ tbl' = SwapFields(DefaultTable, tbl).b
    /\ shared' = FALSE
    /\ last' = [op |-> "moveConstruct", flag |-> FALSE, grew |-> FALSE]
    /\ elems' = {}
    /\ age' = age + 1
    /\ UNCHANGED <<hung, vals, mabs, slotHash, probe, adapter>>
    /\ exc' = NoExc

\* tbl = std::move(tbl2) (operator=(Table&&))
MoveAssign ==
    /\ PairReady
    /\ tbl' = SwapFields(tbl, tbl2).a
    /\ tbl2' = SwapFields(tbl, tbl2).b
    /\ last' = [op |-> "moveAssign", flag |-> FALSE, grew |-> FALSE]
    /\ elems' = Live(tbl')
    /\ age' = age + 1
    /\ UNCHANGED <<shared, hung, vals, mabs, slotHash, probe, adapter>>
    /\ exc' = NoExc

\* swap(tbl, tbl2)
Swap ==
    /\ PairReady
    /\ tbl' = SwapFields(tbl, tbl2).a
    /\ tbl2' = SwapFields(tbl, tbl2).b
    /\ last' = [op |-> "swap", flag |-> FALSE, grew |-> FALSE]
    /\ elems' = Live(tbl')
    /\ age' = age + 1
    /\ UNCHANGED <<shared, hung, vals, mabs, slotHash, probe, adapter>>
    /\ exc' = NoExc

\* the first object is built by emplace calls; once the second object exists
\* (age > 0) every call of the Set is made
NextPair ==
    \/ \E k \in Keys : Emplace(k)
    \/ age > 0 /\ NextCore
    \/ CopyKeep
    \/ CopySwitch
    \/ CopyAssign
    \/ MoveConstruct
    \/ MoveAssign
    \/ Swap

SpecPair == Init /\ [][NextPair]_vars

----------------------------------------------------------------------------
(* C18 *)

\* the structural invariants of one table: the control array is groups_
\* groups long, the sentinel byte sits at index capacity_, its last byte,
\* and nowhere below, and size_ counts the Full bytes
Structural(T) ==
    /\ T.buffer_ =>
          /\ T.ctrlLen_ = T.groups_ * LANE_COUNT
          /\ T.capacity_ = T.ctrlLen_ - 1
          /\ T.ctrl_[T.capacity_] = Sentinel
          /\ \A i \in 0..(T.capacity_ - 1) : T.ctrl_[i] # Sentinel
    /\ T.size_ = Cardinality(FullSlots(T))

----------------------------------------------------------------------------
(* C19 *)

\* the calls of the Set that change a table
SetCalls == {"emplace", "erase", "eraseIt", "tryErase", "reserve", "clear"}

\* C19: after a copy construction or a copy assignment the two objects are
\* independent: a call of emplace, erase, reserve or clear on one of them
\* (the copy after CopySwitch and CopyAssign, the original after CopyKeep)
\* leaves the size, the control bytes and the elements of the other as
\* they were.
C19_CopyIndependent ==
    [][last'.op \in SetCalls =>
            /\ tbl2'.size_ = tbl2.size_
            /\ tbl2'.ctrl_ = tbl2.ctrl_
            /\ tbl2'.slots_ = tbl2.slots_
            /\ tbl2' = tbl2]_vars

\* an erase on one of the two objects of a copy has just left a tombstone
\* in place, in a buffer of the same shape as the other's, which still
\* holds the erased element
C19_Witness ==
    /\ last.op = "erase" /\ last.flag
    /\ tbl.buffer_ /\ tbl2.buffer_
    /\ tbl.capacity_ = tbl2.capacity_
    /\ tbl2.size_ = tbl.size_ + 1
    /\ \E i \in FullSlots(tbl2) :
          /\ tbl.ctrl_[i] = Deleted
          /\ \A j \in DOMAIN tbl.ctrl_ : j # i => tbl.ctrl_[j] = tbl2.ctrl_[j]

----------------------------------------------------------------------------
(* Copy construction when the copy constructor of an element throws *)

\* the loop of Table(Table const&) when the n-th construct throws: the
\* control byte of a slot is written after its element is constructed
RECURSIVE CopyLoopThrows(_, _, _, _, _)
CopyLoopThrows(other, N, it, n, made) ==
    IF it = End(other)
    THEN [ctrl |-> N.ctrl, slots |-> N.slots, made |-> made, thrown |-> FALSE]
    ELSE IF Len(made) + 1 = n
    THEN [ctrl |-> N.ctrl, slots |-> N.slots, made |-> made, thrown |-> TRUE]
    ELSE CopyLoopThrows(other,
                        [ctrl |-> [N.ctrl EXCEPT ![it] = other.ctrl_[it]],
                         slots |-> [N.slots EXCEPT ![it] = other.slots_[it]]],
                        Incr(other, it), n, Append(made, it))

\* a bug the handler could have: it destroys every slot below capacity_
RECURSIVE CatchLoopAll(_, _, _, _)
CatchLoopAll(ctrl, capacity, i, destroyed) ==
    IF i >= capacity THEN destroyed
    ELSE CatchLoopAll(ctrl, capacity, i + 1, Append(destroyed, i))

\* the handler's loop: for (i = 0; i < capacity_; ++i) destroy the element
\* of slot i if (ctrl_[i] & 0x80) == 0
RECURSIVE CatchLoop(_, _, _, _)
CatchLoop(ctrl, capacity, i, destroyed) ==
    IF i >= capacity THEN destroyed
    ELSE CatchLoop(ctrl, capacity, i + 1,
                   IF IsFull(ctrl[i]) THEN Append(destroyed, i) ELSE destroyed)

\* Table::Table(Table const& other) when the n-th copy of an element
\* throws: the object constructed if no exception leaves, and what the
\* handler did otherwise
CopyThrows(other, n) ==
    LET N0 == [ctrl |-> [i \in 0..(other.ctrlLen_ - 1) |-> Empty],
               slots |-> NewSlots(other.capacity_)]
        r == CopyLoopThrows(other, N0, Begin(other), n, << >>)
    IN  IF other.buffer_ /\ other.capacity_ > 0 /\ r.thrown
        THEN [tbl |-> DefaultTable,
              exc |-> [thrown |-> TRUE, made |-> r.made,
                       destroyed |-> CatchLoop(r.ctrl, other.capacity_, 0, << >>),
                       released |-> TRUE]]
        ELSE [tbl |-> CopyConstruct(other), exc |-> NoExc]

\* dst = other (operator=(Table const&)) when the n-th copy of an element
\* throws: swap(temp) is reached only if Table temp(other) returns
CopyAssignThrows(dst, other, n) ==
    LET c == CopyThrows(other, n)
    IN  [dst |-> IF c.exc.thrown THEN dst ELSE SwapFields(dst, c.tbl).a,
         exc |-> c.exc]

\* Table c(tbl) with an element type whose n-th copy throws
CopyThrowsCall(n) ==
    /\ PairReady
    /\ exc' = CopyThrows(tbl, n).exc
    /\ last' = [op |-> "copyThrows", flag |-> FALSE, grew |-> FALSE]
    /\ UNCHANGED <<tbl, tbl2, hung, elems, age, shared, vals, mabs, slotHash, probe, adapter>>

\* tbl2 = tbl with an element type whose n-th copy throws
CopyAssignThrowsCall(n) ==
    /\ PairReady
    /\ LET r == CopyAssignThrows(tbl2, tbl, n)
       IN  /\ tbl2' = r.dst
           /\ exc' = r.exc
           /\ shared' = IF r.exc.thrown THEN shared ELSE CopyShares(tbl)
    /\ last' = [op |-> "copyAssignThrows", flag |-> FALSE, grew |-> FALSE]
    /\ UNCHANGED <<tbl, hung, elems, age, vals, mabs, slotHash, probe, adapter>>

\* the slots a sequence of slot indices names
Range(q) == {q[i] : i \in 1..Len(q)}

----------------------------------------------------------------------------
(* Rehash when the move constructor of an element throws *)

\* rehashImpl's transfer loop when the n-th move construction throws.
\* moved: the old slots whose element was moved out and destroyed; made:
\* the new slots constructed.  rehashImpl has no handler: the loop is left
\* as it stands.
RECURSIVE TransferThrows(_, _, _, _, _, _, _)
TransferThrows(T, N, ngroups, oldIdx, n, moved, made) ==
    IF oldIdx >= T.groups_ * LANE_COUNT
    THEN [N |-> N, moved |-> moved, made |-> made, thrown |-> FALSE]
    ELSE IF IsFull(T.ctrl_[oldIdx])
    THEN IF Len(moved) + 1 = n
         THEN [N |-> N, moved |-> moved, made |-> made, thrown |-> TRUE]
         ELSE LET N2 == InsertUnchecked(N, ngroups, T.slots_[oldIdx],
                            MaskGroup(h1(PolicyApply(Hash(T.slots_[oldIdx]))), ngroups))
                  idx == CHOOSE i \in DOMAIN N.ctrl : N2.ctrl[i] # N.ctrl[i]
              IN  TransferThrows(T, N2, ngroups, oldIdx + 1, n,
                                 Append(moved, oldIdx), Append(made, idx))
    ELSE TransferThrows(T, N, ngroups, oldIdx + 1, n, moved, made)

\* Table::rehashImpl when the n-th move construction throws: the exception
\* leaves before buffer_, ctrl_, slots_, ctrlLen_, capacity_ and groups_
\* are assigned, the old control bytes are as they were, the elements
\* already relocated are destroyed in the old slots, and the new buffer is
\* neither emptied nor deallocated
RehashImplThrows(T, newGroupCount, n) ==
    LET count == LANE_COUNT * newGroupCount
        newCapacity == count - 1
        N0 == [ctrl |-> NewCtrl(count), slots |-> NewSlots(newCapacity)]
        r == TransferThrows(T, N0, newGroupCount, 0, n, << >>, << >>)
    IN  IF T.capacity_ > 0 /\ r.thrown
        THEN [tbl |-> [T EXCEPT !.slots_ =
                          [i \in DOMAIN T.slots_ |->
                              IF i \in Range(r.moved) THEN NoElem ELSE T.slots_[i]]],
              exc |-> [thrown |-> TRUE, made |-> r.made, destroyed |-> << >>,
                       released |-> FALSE]]
        ELSE [tbl |-> RehashImpl(T, newGroupCount), exc |-> NoExc]

\* Table::reserve when the n-th move construction of its rehash throws
ReserveThrows(T, count, n) ==
    IF Desired(count) <= T.capacity_ THEN [tbl |-> T, exc |-> NoExc]
    ELSE RehashImplThrows(T, FindSmallestN(Desired(count)), n)

\* Table::emplace_wrapper when the n-th move construction of the rehash
\* it triggers throws: emplace_internal calls reserve(size_ + 1) on the
\* table as it found it, and the exception leaves emplace
EmplaceThrows(T, value, n) ==
    LET r == EmplaceWrapper(T, value)
    IN  IF T.capacity_ > 0 /\ ~r.hang /\ r.tbl.capacity_ # T.capacity_
        THEN ReserveThrows(T, T.size_ + 1, n)
        ELSE [tbl |-> r.tbl, exc |-> NoExc]

\* the calls that follow would read destroyed elements, which is
\* undefined: the run ends with the call that threw
Over == age' = MaxAge + 1

\* reserve(cnt) with an element type whose n-th move throws
ReserveThrowsCall(cnt, n) ==
    /\ PairReady
    /\ LET r == ReserveThrows(tbl, cnt, n)
       IN  /\ r.exc.thrown
           /\ tbl' = r.tbl
           /\ exc' = r.exc
    /\ last' = [op |-> "reserveThrows", flag |-> FALSE, grew |-> FALSE]
    /\ Over
    /\ UNCHANGED <<tbl2, hung, elems, shared, vals, mabs, slotHash, probe, adapter>>

\* emplace(k) with an element type whose n-th move throws
EmplaceThrowsCall(k, n) ==
    /\ PairReady
    /\ LET r == EmplaceThrows(tbl, k, n)
       IN  /\ r.exc.thrown
           /\ tbl' = r.tbl
           /\ exc' = r.exc
    /\ last' = [op |-> "emplaceThrows", flag |-> FALSE, grew |-> FALSE]
    /\ Over
    /\ UNCHANGED <<tbl2, hung, elems, shared, vals, mabs, slotHash, probe, adapter>>

\* Table::emplace_internal when the move construction of the element into
\* its slot throws: the duplicate check, the rehash if one was due and the
\* write of ctrl_[idx] = h2Val have been done, the construct has not built
\* the element and size_++ is not reached
EmplaceMoveThrows(T, value) ==
    LET r == EmplaceWrapper(T, value)
    IN  IF ~r.hang /\ r.inserted
        THEN [tbl |-> [r.tbl EXCEPT !.slots_ = [@ EXCEPT ![r.idx] = NoElem],
                                    !.size_ = @ - 1],
              exc |-> [thrown |-> TRUE, made |-> << >>, destroyed |-> << >>,
                       released |-> FALSE]]
        ELSE [tbl |-> r.tbl, exc |-> NoExc]

\* emplace(k) with an element type whose move into the slot throws
EmplaceMoveThrowsCall(k) ==
    /\ PairReady
    /\ LET r == EmplaceMoveThrows(tbl, k)
       IN  /\ r.exc.thrown
           /\ tbl' = r.tbl
           /\ exc' = r.exc
    /\ last' = [op |-> "emplaceMoveThrows", flag |-> FALSE, grew |-> FALSE]
    /\ Over
    /\ UNCHANGED <<tbl2, hung, elems, shared, vals, mabs, slotHash, probe, adapter>>

----------------------------------------------------------------------------
(* Rehash when the allocation of the new buffer fails *)

\* a bug rehashImpl could have: it gives the old buffer back before it
\* asks for the new one
RehashImplFreeFirst(T, newGroupCount) ==
    [tbl |-> [T EXCEPT !.buffer_ = FALSE, !.ctrl_ = EmptyArr, !.slots_ = EmptyArr],
     exc |-> [thrown |-> TRUE, made |-> << >>, destroyed |-> << >>,
              released |-> FALSE]]

\* Table::rehashImpl when allocateBuffer throws: count and newCapacity are
\* locals, allocateBuffer is the first statement that touches anything,
\* and no field has been assigned when the exception leaves
RehashImplNoMem(T, newGroupCount) ==
    [tbl |-> T,
     exc |-> [thrown |-> TRUE, made |-> << >>, destroyed |-> << >>,
              released |-> FALSE]]

\* Table::reserve when the allocation of its rehash fails
ReserveNoMem(T, count) ==
    IF Desired(count) <= T.capacity_ THEN [tbl |-> T, exc |-> NoExc]
    ELSE RehashImplNoMem(T, FindSmallestN(Desired(count)))

\* Table::emplace_wrapper when the allocation of the rehash it triggers
\* fails: reserve(1) on a table without buffer, reserve(size_ + 1) at the
\* load limit; emplace_internal has written nothing before either call
EmplaceNoMem(T, value) ==
    LET r == EmplaceWrapper(T, value)
    IN  IF ~r.hang /\ r.tbl.capacity_ # T.capacity_
        THEN ReserveNoMem(T, IF T.capacity_ = 0 THEN 1 ELSE T.size_ + 1)
        ELSE [tbl |-> r.tbl, exc |-> NoExc]

\* reserve(cnt) with an allocator that throws
ReserveNoMemCall(cnt) ==
    /\ PairReady
    /\ LET r == ReserveNoMem(tbl, cnt)
       IN  /\ r.exc.thrown
           /\ tbl' = r.tbl
           /\ exc' = r.exc
    /\ last' = [op |-> "reserveNoMem", flag |-> FALSE, grew |-> FALSE]
    /\ UNCHANGED <<tbl2, hung, elems, age, shared, vals, mabs, slotHash, probe, adapter>>

\* emplace(k) with an allocator that throws
EmplaceNoMemCall(k) ==
    /\ PairReady
    /\ LET r == EmplaceNoMem(tbl, k)
       IN  /\ r.exc.thrown
           /\ tbl' = r.tbl
           /\ exc' = r.exc
    /\ last' = [op |-> "emplaceNoMem", flag |-> FALSE, grew |-> FALSE]
    /\ UNCHANGED <<tbl2, hung, elems, age, shared, vals, mabs, slotHash, probe, adapter>>

\* the first object is built by emplace calls and copied; the calls that
\* throw are made on it as it is and after further calls
NextThrow ==
    \/ \E k \in Keys : Emplace(k)
    \/ age > 0 /\ NextCore
    \/ CopyKeep
    \/ \E n \in 1..tbl.size_ : CopyThrowsCall(n)
    \/ \E n \in 1..tbl.size_ : CopyAssignThrowsCall(n)
    \/ \E cnt \in 0..MaxReserve, n \in 1..tbl.size_ : ReserveThrowsCall(cnt, n)
    \/ \E k \in Keys, n \in 1..tbl.size_ : EmplaceThrowsCall(k, n)
    \/ \E cnt \in 0..MaxReserve : ReserveNoMemCall(cnt)
    \/ \E k \in Keys : EmplaceNoMemCall(k)
    \/ \E k \in Keys : EmplaceMoveThrowsCall(k)

SpecThrow == Init /\ [][NextThrow]_vars

----------------------------------------------------------------------------
(* C20 *)

\* C20: when the copy of the i-th element throws during copy construction,
\* for any i, the exception leaves the constructor, the source table is
\* unchanged, the elements constructed so far (the i-1 first elements of
\* the source's iteration order) are destroyed, each once, nothing else is
\* destroyed, and the new buffer is released; in a copy assignment the
\* destination keeps what it held.
C20_CopyStrongGuarantee ==
    [][last'.op \in {"copyThrows", "copyAssignThrows"} =>
            /\ exc'.thrown
            /\ tbl' = tbl
            /\ tbl2' = tbl2
            /\ Range(exc'.made) \subseteq FullSlots(tbl)
            /\ Len(exc'.made) < tbl.size_
            /\ Range(exc'.destroyed) = Range(exc'.made)
            /\ \A i, j \in 1..Len(exc'.destroyed) :
                   exc'.destroyed[i] = exc'.destroyed[j] => i = j
            /\ exc'.released]_vars

\* an assignment from a table with a tombstone into a table that holds
\* other elements has thrown after two elements were copied
C20_Witness ==
    /\ last.op = "copyAssignThrows"
    /\ exc.thrown /\ Len(exc.made) >= 2
    /\ tbl2.size_ > 0 /\ Live(tbl2) # Live(tbl)
    /\ \E i \in DOMAIN tbl.ctrl_ : tbl.ctrl_[i] = Deleted

----------------------------------------------------------------------------
(* C21 *)

\* C21: when the move of an element throws in the middle of a rehash, the
\* exception leaves the call and the table is valid: every slot whose
\* control byte is Full holds an element that is still constructed, size()
\* is the number of Full bytes, and the elements already built in the new
\* buffer are destroyed and that buffer is released.
C21_RehashThrowValid ==
    [][last'.op \in {"reserveThrows", "emplaceThrows"} =>
            /\ exc'.thrown
            /\ \A i \in FullSlots(tbl') : tbl'.slots_[i] # NoElem
            /\ tbl'.size_ = Cardinality(FullSlots(tbl'))
            /\ Range(exc'.destroyed) = Range(exc'.made)
            /\ exc'.released]_vars

----------------------------------------------------------------------------
(* C22 *)

\* C22: when the allocation made by reserve or by the rehash an emplace
\* triggers fails, the failure leaves the call and the table is as it was:
\* size, capacity, groups, control bytes and elements.
C22_AllocFailureUnchanged ==
    [][last'.op \in {"reserveNoMem", "emplaceNoMem"} =>
            /\ exc'.thrown
            /\ tbl'.size_ = tbl.size_
            /\ tbl'.capacity_ = tbl.capacity_
            /\ tbl'.groups_ = tbl.groups_
            /\ tbl'.buffer_ = tbl.buffer_
            /\ tbl'.ctrl_ = tbl.ctrl_
            /\ tbl'.slots_ = tbl.slots_
            /\ tbl' = tbl]_vars

\* a reserve on a table that holds elements and a tombstone has failed to
\* allocate
C22_Witness ==
    /\ last.op = "reserveNoMem" /\ exc.thrown
    /\ tbl.size_ >= 2
    /\ \E i \in DOMAIN tbl.ctrl_ : tbl.ctrl_[i] = Deleted

----------------------------------------------------------------------------
(* The Table under StoreHashTag: each slot carries a `hash` member that   *)
(* rehashImpl reads instead of hashing the element again.                 *)

\* a `hash` member nothing has been written to and nothing reads
NoHash == NoElem

\* insertUnchecked with setSlotHash(newSlots[idx], fullHash): N is the new
\* buffer [ctrl, slots, hash]
RECURSIVE InsertUncheckedStored(_, _, _, _, _)
InsertUncheckedStored(N, ngroups, elem, fullHash, group) ==
    LET base == group * LANE_COUNT
        emptyMask == MatchEmpty(N.ctrl, base)
        idx == base + Min(emptyMask)
    IN  IF emptyMask # {}
        THEN [ctrl |-> [N.ctrl EXCEPT ![idx] = h2(fullHash)],
              slots |-> [N.slots EXCEPT ![idx] = elem],
              hash |-> [N.hash EXCEPT ![idx] = fullHash]]
        ELSE InsertUncheckedStored(N, ngroups, elem, fullHash,
                                   MaskGroup(group + 1, ngroups))

\* rehashImpl's transfer loop with fullHash = getSlotHash(oldSlot) = oldSlot.hash
RECURSIVE TransferStored(_, _, _, _, _)
TransferStored(T, hs, N, ngroups, oldIdx) ==
    IF oldIdx >= T.groups_ * LANE_COUNT THEN N
    ELSE IF IsFull(T.ctrl_[oldIdx])
         THEN TransferStored(T, hs,
                  InsertUncheckedStored(N, ngroups, T.slots_[oldIdx], hs[oldIdx],
                                        MaskGroup(h1(hs[oldIdx]), ngroups)),
                  ngroups, oldIdx + 1)
         ELSE TransferStored(T, hs, N, ngroups, oldIdx + 1)

\* Table::rehashImpl under StoreHashTag: the table and its hash members
RehashImplStored(T, hs, newGroupCount) ==
    LET count == LANE_COUNT * newGroupCount
        newCapacity == count - 1
        N0 == [ctrl |-> NewCtrl(count), slots |-> NewSlots(newCapacity),
               hash |-> [i \in 0..(newCapacity - 1) |-> NoHash]]
        N == IF T.capacity_ > 0 THEN TransferStored(T, hs, N0, newGroupCount, 0)
             ELSE N0
    IN  [tbl |-> [T EXCEPT !.buffer_ = TRUE, !.ctrl_ = N.ctrl, !.slots_ = N.slots,
                           !.ctrlLen_ = count, !.capacity_ = newCapacity,
                           !.groups_ = newGroupCount],
         hash |-> N.hash]

\* Table::reserve under StoreHashTag
ReserveStored(T, hs, count) ==
    IF Desired(count) <= T.capacity_ THEN [tbl |-> T, hash |-> hs]
    ELSE RehashImplStored(T, hs, FindSmallestN(Desired(count)))

\* Table::emplace_internal under StoreHashTag: setSlotHash(slots_[idx], hash)
\* goes with the placement
RECURSIVE EmplaceInternalStored(_, _, _, _)
RECURSIVE EmplaceLoopStored(_, _, _, _, _, _)
EmplaceLoopStored(T, hs, value, hash, group, visits) ==
    IF visits >= T.groups_
    THEN [tbl |-> T, hash |-> hs, inserted |-> FALSE, hang |-> TRUE]
    ELSE
        LET baseSlot == group * LANE_COUNT
            hit == {i \in Match(T.ctrl_, baseSlot, h2(hash)) :
                        Equal(T.slots_[baseSlot + i], value)}
            empty == MatchEmpty(T.ctrl_, baseSlot)
            R == ReserveStored(T, hs, T.size_ + 1)
        IN  IF hit # {}
            THEN [tbl |-> T, hash |-> hs, inserted |-> FALSE, hang |-> FALSE]
            ELSE IF empty # {}
            THEN IF OverLoad(T)
                 THEN EmplaceInternalStored(R.tbl, R.hash, value, hash)
                 ELSE [tbl |-> Place(T, baseSlot + Min(empty), value, hash),
                       hash |-> [hs EXCEPT ![baseSlot + Min(empty)] = hash],
                       inserted |-> TRUE, hang |-> FALSE]
            ELSE EmplaceLoopStored(T, hs, value, hash,
                                   MaskGroup(group + 1, T.groups_), visits + 1)

EmplaceInternalStored(T, hs, value, hash) ==
    LET R == IF T.capacity_ = 0 THEN ReserveStored(T, hs, 1)
             ELSE [tbl |-> T, hash |-> hs]
    IN  EmplaceLoopStored(R.tbl, R.hash, value, hash,
                          MaskGroup(h1(hash), R.tbl.groups_), 0)

\* Table::Table(Table const&) under StoreHashTag: the loop constructs the
\* element and copies the control byte; the `hash` member of the new slot
\* is never written, so a later read of it gives whatever the fresh buffer
\* holds (junk)
CopyHashes(other, junk) ==
    [i \in DOMAIN other.slots_ |-> IF IsFull(other.ctrl_[i]) THEN junk ELSE NoHash]

StoredOnly == UNCHANGED <<elems, tbl2, shared, vals, mabs, exc, probe, adapter>>

StoredEmplace(k) ==
    /\ Ready
    /\ LET r == EmplaceInternalStored(tbl, slotHash, k, PolicyApply(Hash(k)))
       IN  /\ tbl' = r.tbl
           /\ slotHash' = r.hash
           /\ hung' = r.hang
           /\ last' = [op |-> "emplace", flag |-> r.inserted,
                       grew |-> r.tbl.capacity_ # tbl.capacity_]
    /\ Aged
    /\ StoredOnly

\* erase_slot leaves the `hash` member of the slot as it is
StoredErase(k) ==
    /\ Ready
    /\ LET r == SetErase(tbl, k)
       IN  /\ tbl' = r.tbl
           /\ hung' = r.hang
           /\ last' = [op |-> "erase", flag |-> r.count = 1, grew |-> FALSE]
    /\ Aged
    /\ UNCHANGED slotHash
    /\ StoredOnly

StoredReserve(n) ==
    /\ Ready
    /\ LET r == ReserveStored(tbl, slotHash, n)
       IN  /\ tbl' = r.tbl
           /\ slotHash' = r.hash
           /\ last' = [op |-> "reserve", flag |-> FALSE,
                       grew |-> r.tbl.capacity_ # tbl.capacity_]
    /\ Aged
    /\ UNCHANGED hung
    /\ StoredOnly

\* copy construction; the model goes on with the copy
StoredCopy(junk) ==
    /\ Ready
    /\ tbl' = CopyConstruct(tbl)
    /\ slotHash' = CopyHashes(tbl, junk)
    /\ last' = [op |-> "copy", flag |-> FALSE, grew |-> FALSE]
    /\ age' = age + 1
    /\ UNCHANGED hung
    /\ StoredOnly

\* the values an unwritten `hash` member is read as
JunkHashes == {PolicyApply(Hash(k)) : k \in Keys}

NextStored ==
    \/ \E k \in Keys : StoredEmplace(k)
    \/ \E k \in Keys : StoredErase(k)
    \/ \E n \in 0..MaxReserve : StoredReserve(n)
    \/ \E junk \in JunkHashes : StoredCopy(junk)

SpecStored == Init /\ [][NextStored]_vars

----------------------------------------------------------------------------
(* C23 *)

\* C23: in every table built by emplace, rehash and copy construction, the
\* control byte of each live slot is policy(hasher(element)) & 0x7F, and
\* under StoreHashTag the slot's cached hash is policy(hasher(element)).
C23_HashFragment ==
    \A i \in FullSlots(tbl) :
        /\ tbl.ctrl_[i] = h2(PolicyApply(Hash(tbl.slots_[i])))
        /\ slotHash[i] = PolicyApply(Hash(tbl.slots_[i]))

----------------------------------------------------------------------------
(* C24 *)

\* C24: in every reachable state, after clear() and in a moved-from table
\* too, either the table is uninitialized with groups = 0, capacity = 0 and
\* ctrl_len = 0, or groups is a power of two, capacity = groups *
\* lane_count - 1 and ctrl_len = groups * lane_count.
C24_Shape ==
    \/ tbl.groups_ = 0 /\ tbl.capacity_ = 0 /\ tbl.ctrlLen_ = 0
    \/ /\ tbl.groups_ > 0 /\ BitCeil(tbl.groups_) = tbl.groups_
       /\ tbl.capacity_ = tbl.groups_ * LANE_COUNT - 1
       /\ tbl.ctrlLen_ = tbl.groups_ * LANE_COUNT

----------------------------------------------------------------------------
(* C25 *)

\* floor(capacity * load_factor)
LoadLimit(T) == (T.capacity_ * LoadNum) \div LoadDen

\* the probe of a key not present comes to a group with an Empty lane: it
\* walks the groups round from the key's home group, so some group has one
\* (a table without buffer is given one before the probe starts)
ProbeFindsEmpty(T) ==
    T.capacity_ = 0 \/ \E g \in 0..(T.groups_ - 1) : AnyEmpty(T.ctrl_, g * LANE_COUNT)

\* C25: an emplace of a key not present whose probe finds a group with an
\* Empty lane rehashes iff size + 1 > floor(capacity * load_factor): below
\* the limit it inserts the key with no rehash, so a table can be filled to
\* exactly the limit, at the limit it rehashes and inserts, and in every
\* state size <= floor(capacity * load_factor).
C25_LoadLimit ==
    [][/\ tbl'.size_ <= LoadLimit(tbl')
       /\ \A k \in Keys \ Live(tbl) :
            (Emplace(k) /\ ProbeFindsEmpty(tbl)) =>
                /\ ~hung'
                /\ last'.flag /\ tbl'.size_ = tbl.size_ + 1
                /\ last'.grew <=> (tbl.size_ + 1 > LoadLimit(tbl))]_vars

\* a table of one group was filled to exactly its limit, and the emplace
\* of one more key has just rehashed it to two groups
C25_Witness ==
    /\ last.op = "emplace" /\ last.flag /\ last.grew
    /\ tbl.groups_ = 2
    /\ tbl.size_ = (((LANE_COUNT - 1) * LoadNum) \div LoadDen) + 1

----------------------------------------------------------------------------
(* C26 *)

\* ceil((s + 1) / load_factor)
GrowthNeed(s) == ((s + 1) * LoadDen + LoadNum - 1) \div LoadNum

\* g is a power of two
IsPowerOfTwo(g) == \E e \in 0..g : 2 ^ e = g

\* g serves a rehash at size s: g * lane_count - 1 >= ceil((s + 1) / load_factor)
Serves(g, s) == IsPowerOfTwo(g) /\ g * LANE_COUNT - 1 >= GrowthNeed(s)

\* C26: a rehash triggered by emplace at size s sets groups to the smallest
\* power of two g with g * lane_count - 1 >= ceil((s + 1) / load_factor);
\* the new group count is greater than the old one, and after the rehash
\* s + 1 <= floor(capacity * load_factor), so the restarted emplace does
\* not rehash again.
C26_GrowthTarget ==
    [][\A k \in Keys :
          (Emplace(k) /\ last'.grew) =>
              /\ Serves(tbl'.groups_, tbl.size_)
              /\ \A g \in 1..(tbl'.groups_ - 1) : ~Serves(g, tbl.size_)
              /\ tbl'.groups_ > tbl.groups_
              /\ tbl.size_ + 1 <= LoadLimit(tbl')]_vars

----------------------------------------------------------------------------
(* C27 *)

\* the slots that hold a constructed element
Constructed(T) == {i \in DOMAIN T.slots_ : T.slots_[i] # NoElem}

\* the slots whose element clear() destroys: for (i = 0; i < capacity_; ++i)
\* if ((ctrl_[i] & 0x80) == 0) destroy(slots_[i])
ClearDestroys(T) ==
    IF T.buffer_ THEN {i \in 0..(T.capacity_ - 1) : IsFull(T.ctrl_[i])} ELSE {}

----------------------------------------------------------------------------
(* C28 *)

\* the control bytes of the aligned group that holds slot i
GroupOf(T, i) == {j \in DOMAIN T.ctrl_ : j \div LANE_COUNT = i \div LANE_COUNT}

\* C28: an erase of a live slot writes Empty to its control byte iff the
\* aligned group that holds the slot has an Empty lane at the time, and
\* Deleted otherwise; no other control byte changes.
C28_EraseRule ==
    [][(last'.op \in {"erase", "eraseIt", "tryErase"} /\ last'.flag) =>
          \E i \in FullSlots(tbl) :
              /\ \A j \in DOMAIN tbl.ctrl_ : j # i => tbl'.ctrl_[j] = tbl.ctrl_[j]
              /\ tbl'.ctrl_[i] \in {Empty, Deleted}
              /\ tbl'.ctrl_[i] = Empty <=>
                     \E j \in GroupOf(tbl, i) : tbl.ctrl_[j] = Empty]_vars

\* an erase in the second group, which had no Empty lane, has left a
\* tombstone there after erases in the first group had left none
C28_Witness ==
    /\ last.op \in {"erase", "eraseIt", "tryErase"} /\ last.flag
    /\ tbl.buffer_ /\ tbl.groups_ = 2
    /\ \E i \in GroupOf(tbl, LANE_COUNT) : tbl.ctrl_[i] = Deleted
    /\ \A i \in GroupOf(tbl, 0) : tbl.ctrl_[i] = Empty

----------------------------------------------------------------------------
(* C29 *)

\* the groups of T in the order the probe for `hash` visits them
ProbeGroup(T, hash, j) == MaskGroup(h1(hash) + j, T.groups_)

\* the lowest-index Empty lane of the first group on the probe sequence of
\* `hash` that has an Empty lane; NoElem when no group has one
ProbeTarget(T, hash) ==
    LET js == {j \in 0..(T.groups_ - 1) :
                   AnyEmpty(T.ctrl_, ProbeGroup(T, hash, j) * LANE_COUNT)}
    IN  IF js = {} THEN NoElem
        ELSE LET base == ProbeGroup(T, hash, Min(js)) * LANE_COUNT
             IN  base + Min(MatchEmpty(T.ctrl_, base))

\* T with slot idx emptied again: the table the element was placed into
Unplaced(T, idx) ==
    [T EXCEPT !.ctrl_ = [@ EXCEPT ![idx] = Empty],
              !.slots_ = [@ EXCEPT ![idx] = NoElem]]

\* the emplace of k from table T0 to table T1 placed k as the rule says
PlacedByRule(T0, T1, k) ==
    LET H == PolicyApply(Hash(k))
    IN  \E idx \in FullSlots(T1) :
            /\ T1.slots_[idx] = k
            /\ T1.ctrl_[idx] = h2(H)
            /\ idx = ProbeTarget(Unplaced(T1, idx), H)
            /\ IF T1.capacity_ = T0.capacity_ /\ T0.buffer_
               THEN /\ Unplaced(T1, idx).ctrl_ = T0.ctrl_
                    /\ Unplaced(T1, idx).slots_ = T0.slots_
               ELSE /\ Live(Unplaced(T1, idx)) = Live(T0)
                    /\ \A i \in DOMAIN T1.ctrl_ : T1.ctrl_[i] # Deleted

\* C29: an emplace of a key not present writes the element into the
\* lowest-index Empty lane of the first group on the key's probe sequence
\* that has an Empty lane (in the new table after a rehash), sets that
\* control byte to h2(H) and changes no other control byte or slot.
C29_PlacementRule ==
    [][\A k \in Keys : (Emplace(k) /\ k \notin Live(tbl)) =>
            PlacedByRule(tbl, tbl', k)]_vars

----------------------------------------------------------------------------
(* C30 *)

\* the slots whose element the probe loop of find_internal and of
\* emplace_internal reads: in each group it loads, the lanes that match the
\* h2 fragment, up to the first one whose element is equal
RECURSIVE ProbeReads(_, _, _, _)
ProbeReads(T, key, group, visits) ==
    IF visits >= T.groups_ THEN {}
    ELSE
        LET base == group * LANE_COUNT
            m == Match(T.ctrl_, base, h2(PolicyApply(Hash(key))))
            hit == {i \in m : Equal(key, T.slots_[base + i])}
            read == {base + i : i \in {l \in m : hit = {} \/ l <= Min(hit)}}
        IN  read \cup
            (IF hit # {} \/ AnyEmpty(T.ctrl_, base) THEN {}
             ELSE ProbeReads(T, key, MaskGroup(group + 1, T.groups_), visits + 1))

\* find(key)
FindReads(T, key) ==
    IF T.size_ = 0 THEN {} ELSE ProbeReads(T, key, HomeGroup(T, key), 0)

\* emplace(key), the duplicate check in the table as it is
EmplaceReads(T, key) ==
    IF T.capacity_ = 0 THEN {} ELSE ProbeReads(T, key, HomeGroup(T, key), 0)

\* rehashImpl: the matchFull lanes of every group of the old buffer
RehashReads(T) ==
    IF T.capacity_ = 0 THEN {}
    ELSE {g * LANE_COUNT + i : g \in 0..(T.groups_ - 1), i \in Lanes}
            \cap {j \in DOMAIN T.ctrl_ : j % LANE_COUNT \in
                      MatchFull(T.ctrl_, j - (j % LANE_COUNT))}

\* clear: the slots below capacity_ whose control byte has the top bit clear
ClearReads(T) ==
    IF T.buffer_ THEN {i \in 0..(T.capacity_ - 1) : T.ctrl_[i] < 128} ELSE {}

\* the positions an iteration from begin() dereferences, which are also the
\* elements the copy constructor reads
RECURSIVE IterReads(_, _)
IterReads(T, pos) ==
    IF pos = End(T) THEN {} ELSE {pos} \cup IterReads(T, Incr(T, pos))

\* every slot whose element some call made in this state reads
AccessedSlots(T) ==
    UNION {FindReads(T, k) \cup EmplaceReads(T, k) : k \in Keys}
        \cup RehashReads(T) \cup ClearReads(T) \cup IterReads(T, Begin(T))

\* C30: in every reachable state find, emplace, rehash, copy construction,
\* clear and iteration read a slot's element only if its control byte is
\* Full and the slot holds a constructed element; a lane that matches an h2
\* fragment is live and the sentinel lane is never read as a slot.
C30_NoUninitRead ==
    \A i \in AccessedSlots(tbl) :
        /\ i \in DOMAIN tbl.slots_
        /\ i # tbl.capacity_
        /\ IsFull(tbl.ctrl_[i])
        /\ tbl.slots_[i] # NoElem

----------------------------------------------------------------------------
(* C31 *)

\* the live slots of T0 that are no longer live in T1
Vacated(T0, T1) == FullSlots(T0) \ FullSlots(T1)

\* every live slot of T0 that is still live in T1 has the control byte and
\* the element it had
SamePlaces(T0, T1) ==
    \A i \in FullSlots(T0) \cap FullSlots(T1) :
        T1.ctrl_[i] = T0.ctrl_[i] /\ T1.slots_[i] = T0.slots_[i]

\* C31: elements move only on rehash: an erase and an emplace that does not
\* rehash leave the slot index, control byte and element of every other
\* live element as they were (an erase vacates at most the erased slot, an
\* emplace none), and capacity changes only when a reserve or an emplace
\* grows the table and in clear.
C31_MoveOnlyOnRehash ==
    [][/\ last'.op \in {"erase", "eraseIt", "tryErase"} =>
            /\ tbl'.capacity_ = tbl.capacity_
            /\ SamePlaces(tbl, tbl')
            /\ Cardinality(Vacated(tbl, tbl')) = IF last'.flag THEN 1 ELSE 0
       /\ (last'.op = "emplace" /\ ~last'.grew) =>
            /\ tbl'.capacity_ = tbl.capacity_
            /\ SamePlaces(tbl, tbl')
            /\ Vacated(tbl, tbl') = {}
       /\ tbl'.capacity_ # tbl.capacity_ =>
            \/ last'.op \in {"reserve", "emplace"} /\ tbl'.capacity_ > tbl.capacity_
            \/ last'.op = "clear" /\ tbl'.capacity_ = 0]_vars

\* an erase has left two other elements and an older tombstone where they
\* were
C31_Witness ==
    /\ last.op = "erase" /\ last.flag
    /\ tbl.size_ >= 2
    /\ Cardinality({i \in DOMAIN tbl.ctrl_ : tbl.ctrl_[i] = Deleted}) >= 2

----------------------------------------------------------------------------
(* C32 *)

\* C32: the slot index emplace returns is valid in the table as it is when
\* emplace returns, also when the call rehashed or allocated the first
\* buffer: it is below the capacity, its control byte is h2(H), which is
\* Full, and its slot holds an element equal to the candidate.
C32_ReturnedIndexValid ==
    [][\A k \in Keys : (Emplace(k) /\ ~hung') =>
            LET idx == EmplaceWrapper(tbl, k).idx
            IN  /\ idx \in 0..(tbl'.capacity_ - 1)
                /\ tbl'.ctrl_[idx] = h2(PolicyApply(Hash(k)))
                /\ IsFull(tbl'.ctrl_[idx])
                /\ Equal(tbl'.slots_[idx], k)]_vars

\* an emplace has grown the table to two groups and its element is in the
\* second one, at an index the old buffer did not have
C32_Witness ==
    /\ last.op = "emplace" /\ last.flag /\ last.grew
    /\ tbl.groups_ = 2
    /\ \E k \in Keys :
           /\ ~EmplaceWrapper(tbl, k).inserted
           /\ EmplaceWrapper(tbl, k).idx >= LANE_COUNT
           /\ h1(PolicyApply(Hash(k))) = 1

----------------------------------------------------------------------------
(* C33 *)

\* the next `budget` emplaces of keys that T does not hold, in any order,
\* keep the capacity and the place of every element; an emplace that never
\* returns ends the run
RECURSIVE NoRehashRun(_, _)
NoRehashRun(T, budget) ==
    \/ budget = 0
    \/ \A k \in Keys \ Live(T) :
           \A r \in {EmplaceWrapper(T, k)} :
               \/ r.hang
               \/ /\ r.inserted
                  /\ r.tbl.capacity_ = T.capacity_
                  /\ SamePlaces(T, r.tbl)
                  /\ Vacated(T, r.tbl) = {}
                  /\ NoRehashRun(r.tbl, budget - 1)

\* C33: after reserve(n) on a table of size s <= n, the next n - s emplaces
\* of new keys trigger no rehash: capacity and the slot index of every
\* element stay as they are throughout.  A run of n - s emplaces begins
\* with every shorter run, so of the counts n that lead to the same table
\* the largest one is checked.
C33_ReserveHolds ==
    [][last'.op = "reserve" =>
          \A n \in 0..MaxReserve :
              (/\ ReserveCall(n)
               /\ tbl.size_ <= n
               /\ n < MaxReserve => Reserve(tbl, n + 1) # tbl') =>
                  NoRehashRun(tbl', n - tbl.size_)]_vars

\* a reserve has grown a table that holds an element and can take two more
C33_Witness ==
    /\ last.op = "reserve" /\ last.grew
    /\ tbl.size_ \in 1..2
    /\ tbl.groups_ = 2
    /\ Cardinality(Keys \ Live(tbl)) >= 2

----------------------------------------------------------------------------
(* The probe sequence on its own: the loop variable `group` of            *)
(* find_internal, emplace_internal and insertUnchecked, stepped by the     *)
(* probing policy over a power-of-two number of groups.                    *)

\* the largest group count is 2^MaxLog
MaxLog == 3

RECURSIVE Pow2(_)
Pow2(e) == IF e = 0 THEN 1 ELSE 2 * Pow2(e - 1)

\* the group counts findSmallestN produces: std::bit_ceil of a positive number
GroupCounts == {Pow2(e) : e \in 0..MaxLog}

\* a bug the linear step could have: it skips a group
LinearStepSkip(group, i, groups) == MaskGroup(group + 2, groups)

\* LinearProbing: group = (group + 1) & (groups_ - 1)
LinearStep(group, i, groups) == MaskGroup(group + 1, groups)

\* QuadraticProbing: g_{i+1} = (g_i + i + 1) & (groups - 1)
QuadraticStep(group, i, groups) == MaskGroup(group + i + 1, groups)

\* everything but the probe loop is idle
ProbeOnly ==
    UNCHANGED <<tbl, last, hung, elems, age, tbl2, shared, vals, mabs, exc,
                slotHash, adapter>>

\* a probe loop starts at any group of a table with any group count
InitProbe ==
    /\ tbl = DefaultTable
    /\ last = NoCall
    /\ hung = FALSE
    /\ elems = {}
    /\ age = 0
    /\ tbl2 = DefaultTable
    /\ shared = FALSE
    /\ vals = EmptyArr
    /\ mabs = EmptyArr
    /\ exc = NoExc
    /\ slotHash = EmptyArr
    /\ adapter = NoAdapter
    /\ \E policy \in {"Linear", "Quadratic"}, groups \in GroupCounts :
           \E start \in 0..(groups - 1) :
               probe = [policy |-> policy, groups |-> groups, group |-> start,
                        i |-> 0, seen |-> <<start>>]

\* one more turn of the loop under LinearProbing
ProbeLinear ==
    /\ probe.policy = "Linear"
    /\ Len(probe.seen) < probe.groups
    /\ probe' = [probe EXCEPT
                    !.group = LinearStep(probe.group, probe.i, probe.groups),
                    !.i = @ + 1,
                    !.seen = Append(@, LinearStep(probe.group, probe.i, probe.groups))]
    /\ ProbeOnly

\* one more turn of the loop under QuadraticProbing
ProbeQuadratic ==
    /\ probe.policy = "Quadratic"
    /\ Len(probe.seen) < probe.groups
    /\ probe' = [probe EXCEPT
                    !.group = QuadraticStep(probe.group, probe.i, probe.groups),
                    !.i = @ + 1,
                    !.seen = Append(@, QuadraticStep(probe.group, probe.i, probe.groups))]
    /\ ProbeOnly

NextProbe ==
    \/ ProbeLinear
    \/ ProbeQuadratic

SpecProbe == InitProbe /\ [][NextProbe]_vars

----------------------------------------------------------------------------
(* C34 *)

\* C34: for every power-of-two group count and every starting group, the
\* probing policy, Linear or Quadratic, visits every group exactly once
\* within its first `groups` steps: no group is visited twice, and after
\* `groups` visits every group has been visited.
C34_ProbeCoverage ==
    /\ \A a, b \in 1..Len(probe.seen) : probe.seen[a] = probe.seen[b] => a = b
    /\ Len(probe.seen) = probe.groups =>
           Range(probe.seen) = 0..(probe.groups - 1)

\* a quadratic probe over eight groups that started in the middle has made
\* its eight visits
C34_Witness ==
    /\ probe.groups = 8
    /\ Len(probe.seen) = 8
    /\ probe.seen[1] = 5
    /\ probe.policy = "Quadratic"

----------------------------------------------------------------------------
(* C35 *)

\* the number of tombstones of T
DeletedCount(T) == Cardinality({i \in DOMAIN T.ctrl_ : T.ctrl_[i] = Deleted})

\* C35: in every reachable state of a table with capacity > 0 at least one
\* control byte is Empty: size plus the number of Deleted bytes never
\* reaches capacity.
C35_FreeLane ==
    tbl.capacity_ > 0 =>
        /\ \E i \in DOMAIN tbl.ctrl_ : tbl.ctrl_[i] = Empty
        /\ tbl.size_ + DeletedCount(tbl) < tbl.capacity_

----------------------------------------------------------------------------
(* C36 *)

\* the groups of T that have no Empty lane
Saturated(T) ==
    {g \in 0..(T.groups_ - 1) : T.capacity_ > 0 /\ ~AnyEmpty(T.ctrl_, g * LANE_COUNT)}

\* C36: once a group has no Empty lane, emplace and erase calls give it
\* none until the next rehash or clear; so every element that was placed
\* after probing past a group is still reached by the probe from its home
\* group.
C36_SaturationMonotone ==
    [][(\/ last'.op \in {"erase", "eraseIt", "tryErase"}
        \/ last'.op = "emplace" /\ ~last'.grew) =>
            /\ Saturated(tbl) \subseteq Saturated(tbl')
            /\ ProbePathInv(tbl')]_vars

\* an erase in a group without Empty lane has left it without one, while
\* the first group holds an element that was placed after probing past it
C36_Witness ==
    /\ last.op = "eraseIt"
    /\ tbl.groups_ = 2
    /\ 1 \in Saturated(tbl)
    /\ DeletedCount(tbl) >= 2
    /\ \E i \in FullSlots(tbl) : i < LANE_COUNT /\ HomeGroup(tbl, tbl.slots_[i]) = 1

----------------------------------------------------------------------------
(* C37 *)

\* C37: emplace never writes an element into a Deleted lane, so between
\* rehashes the number of Deleted control bytes never decreases; right
\* after a rehash, by a reserve that grows or by an emplace, and after the
\* first allocation the table has no Deleted byte; a reserve that does not
\* enlarge removes no tombstone.
C37_TombstoneLifecycle ==
    [][/\ (\/ last'.op \in {"erase", "eraseIt", "tryErase"}
           \/ last'.op = "emplace" /\ ~last'.grew) =>
               /\ DeletedCount(tbl') >= DeletedCount(tbl)
               /\ \A i \in DOMAIN tbl.ctrl_ :
                      tbl.ctrl_[i] = Deleted => tbl'.ctrl_[i] = Deleted
       /\ (last'.op \in {"reserve", "emplace"} /\ last'.grew) =>
               DeletedCount(tbl') = 0
       /\ (last'.op = "reserve" /\ ~last'.grew) =>
               /\ tbl'.ctrl_ = tbl.ctrl_
               /\ DeletedCount(tbl') = DeletedCount(tbl)]_vars

\* an emplace has gone past a group of tombstones and filled an Empty lane
\* of the next group
C37_Witness ==
    /\ last.op = "emplace" /\ last.flag /\ ~last.grew
    /\ tbl.groups_ = 2
    /\ DeletedCount(tbl) >= 2
    /\ \A i \in GroupOf(tbl, LANE_COUNT) : tbl.ctrl_[i] \in {Deleted, Sentinel}

----------------------------------------------------------------------------
(* C38 *)

\* the values a control byte may hold
Alphabet == {Empty, Deleted, Sentinel} \cup 0..(H2Range - 1)

\* C38: in every reachable state each control byte in [0, ctrl_len) is
\* Empty, Deleted, Sentinel or a value in 0..127, so in every group the
\* top-bit test of the SSE backend's matchFull and the three-value
\* exclusion of the EVE and std_simd backends select the same lanes.
C38_Alphabet ==
    /\ \A i \in 0..(tbl.ctrlLen_ - 1) :
           i \in DOMAIN tbl.ctrl_ /\ tbl.ctrl_[i] \in Alphabet
    /\ tbl.capacity_ > 0 =>
           \A g \in 0..(tbl.groups_ - 1) :
               MatchFull(tbl.ctrl_, g * LANE_COUNT)
                   = MatchFullExclude(tbl.ctrl_, g * LANE_COUNT)

\* a table holds all four kinds of control byte, with two different h2
\* fragments among the live ones
C38_Witness ==
    /\ tbl.groups_ = 2 /\ tbl.capacity_ > 0
    /\ \E i, j \in FullSlots(tbl) : tbl.ctrl_[i] # tbl.ctrl_[j]
    /\ \E i \in DOMAIN tbl.ctrl_ : tbl.ctrl_[i] = Deleted
    /\ \E i \in DOMAIN tbl.ctrl_ : tbl.ctrl_[i] = Empty
    /\ tbl.ctrl_[tbl.capacity_] = Sentinel

----------------------------------------------------------------------------
(* C39 *)

\* the live slot i of T is where find looks for its element: its control
\* byte is the h2 fragment find matches and the probe from the group find
\* starts at reaches its group
OnFindPath(T, i) ==
    /\ T.ctrl_[i] = h2(PolicyApply(Hash(T.slots_[i])))
    /\ OnProbePath(T, i)

\* C39: find, emplace and rehash's unchecked insertion start at the same
\* group h1(policy(hasher(key))) & (groups - 1), use the same h2 fragment
\* and step through the same groups: every element a rehash has placed, and
\* the element an emplace has placed, is on the path find walks.
C39_ProbeAgreement ==
    [][/\ (last'.op \in {"reserve", "emplace"} /\ last'.grew) =>
               \A i \in FullSlots(tbl') : OnFindPath(tbl', i)
       /\ (last'.op = "emplace" /\ last'.flag /\ ~last'.grew) =>
               \A i \in FullSlots(tbl') \ FullSlots(tbl) : OnFindPath(tbl', i)]_vars

----------------------------------------------------------------------------
(* AlignedAllocatorAdapter<Alloc, Alignment>: allocate and deallocate over *)
(* an inner allocator of AlignedByte<Alignment> units.  size_t and         *)
(* uintptr_t are SizeBits wide, and their arithmetic wraps.                *)

\* the width of size_t and uintptr_t in the model
SizeBits == 7

\* the largest Alignment is 2^MaxAlignLog
MaxAlignLog == 3

\* sizeof(void*)
PtrSize == 8

\* 2^SizeBits
SizeMod == Pow2(SizeBits)

\* unsigned arithmetic of that width
Wrap(x) == x % SizeMod

\* the Alignment template argument: a power of two
Alignments == {Pow2(e) : e \in 0..MaxAlignLog}

\* size_t extra = Alignment - 1 + sizeof(void*);
\* size_t totalUnits = (n + extra + sizeof(AlignedByte<Alignment>) - 1)
\*                         / sizeof(AlignedByte<Alignment>);
TotalUnits(A, n) ==
    LET extra == Wrap(A - 1 + PtrSize)
    IN  Wrap(Wrap(n + extra) + A - 1) \div A

\* x & ~(Alignment - 1)
AlignDown(x, A) == x - (x % A)

\* uintptr_t rawAddr = raw + sizeof(void*);
\* uintptr_t alignedAddr = (rawAddr + Alignment - 1) & ~(Alignment - 1);
AlignedAddr(A, raw) ==
    LET rawAddr == Wrap(raw + PtrSize)
    IN  AlignDown(Wrap(rawAddr + A - 1), A)

\* reinterpret_cast<void**>(p) - 1
HeaderAddr(p) == Wrap(p - PtrSize + SizeMod)

\* the addresses the inner allocator can return for a block of `units`
\* units of A bytes: not null, and the block and its one-past-the-end
\* address lie in the address space
RawAddresses(A, units) == 1..(SizeMod - units * A - 1)

\* everything but the adapter is idle
AdapterOnly ==
    UNCHANGED <<tbl, last, hung, elems, age, tbl2, shared, vals, mabs, exc,
                slotHash, probe>>

\* an adapter of any Alignment is about to be asked for any number of bytes
InitAdapter ==
    /\ tbl = DefaultTable
    /\ last = NoCall
    /\ hung = FALSE
    /\ elems = {}
    /\ age = 0
    /\ tbl2 = DefaultTable
    /\ shared = FALSE
    /\ vals = EmptyArr
    /\ mabs = EmptyArr
    /\ exc = NoExc
    /\ slotHash = EmptyArr
    /\ probe = NoProbe
    /\ \E A \in Alignments, n \in 0..(SizeMod - 1) :
           adapter = [op |-> "idle", Alignment |-> A, n |-> n]

\* AlignedAllocatorAdapter::allocate(n): the inner allocator returns raw,
\* the header word just below the aligned address receives raw
Allocate ==
    /\ adapter.op = "idle"
    /\ LET A == adapter.Alignment
           totalUnits == TotalUnits(A, adapter.n)
       IN  \E raw \in RawAddresses(A, totalUnits) :
               LET aligned == AlignedAddr(A, raw)
               IN  adapter' = [op |-> "allocated", Alignment |-> A, n |-> adapter.n,
                               raw |-> raw, totalUnits |-> totalUnits,
                               aligned |-> aligned,
                               headerAt |-> HeaderAddr(aligned), header |-> raw]
    /\ AdapterOnly

\* AlignedAllocatorAdapter::deallocate(p, n) with the pointer allocate
\* returned and the same n: it reads the header word below p and hands the
\* inner allocator that pointer and the unit count it computes again
Deallocate ==
    /\ adapter.op = "allocated"
    /\ HeaderAddr(adapter.aligned) = adapter.headerAt
    /\ adapter' = [adapter EXCEPT !.op = "freed"] @@
                  [freedRaw |-> adapter.header,
                   freedUnits |-> TotalUnits(adapter.Alignment, adapter.n)]
    /\ AdapterOnly

NextAdapter ==
    \/ Allocate
    \/ Deallocate

SpecAdapter == InitAdapter /\ [][NextAdapter]_vars

----------------------------------------------------------------------------
(* C40 *)

\* C40: for every raw address the inner allocator returns and every request
\* size n, allocate(n) returns a multiple of Alignment, the header word
\* [aligned - sizeof(void*), aligned) and the user region [aligned,
\* aligned + n) lie inside the raw block of totalUnits * Alignment bytes,
\* and deallocate(p, n) hands the inner allocator the raw pointer and the
\* unit count that allocate used.
C40_AdapterBlock ==
    /\ adapter.op \in {"allocated", "freed"} =>
           LET blockEnd == adapter.raw + adapter.totalUnits * adapter.Alignment
           IN  /\ adapter.aligned % adapter.Alignment = 0
               /\ adapter.raw <= adapter.aligned - PtrSize
               /\ adapter.aligned <= blockEnd
               /\ adapter.aligned + adapter.n <= blockEnd
    /\ adapter.op = "freed" =>
           /\ adapter.freedRaw = adapter.raw
           /\ adapter.freedUnits = adapter.totalUnits

\* the same layout for the request sizes whose arithmetic does not wrap:
\* n + 2 * Alignment + sizeof(void*) - 2 is representable
AdapterBlockNoWrap ==
    (adapter.op # "none" /\ adapter.n + 2 * adapter.Alignment + PtrSize - 2 < SizeMod)
        => C40_AdapterBlock

=============================================================================
